---- MODULE Spec2Model ----
(***************************************************************************)
(* Closest point on a mesh (cpom): the triangle solver, the face solver,   *)
(* the octree, the index builder and the query engine of                   *)
(* ClosestPointQuery, as a state machine.                                  *)
(*                                                                         *)
(* A float is modelled by an exact rational <<n, d>> in lowest terms with  *)
(* d > 0; <<1, 0>> is +infinity, <<-1, 0>> is -infinity and <<0, 0>> is    *)
(* NaN.  Rounding is not modelled.                                         *)
(***************************************************************************)
EXTENDS Integers, Sequences, FiniteSets, TLC

(***************************************************************************)
(* float                                                                   *)
(***************************************************************************)
AbsInt(n) == IF n < 0 THEN -n ELSE n

SignInt(n) == IF n < 0 THEN -1 ELSE IF n > 0 THEN 1 ELSE 0

RECURSIVE GCD(_, _)
GCD(m, n) == IF n = 0 THEN m ELSE GCD(n, m % n)

\* The float n/d, in lowest terms.
Rat(n, d) ==
    IF d = 0 THEN <<SignInt(n), 0>>
    ELSE LET g == GCD(AbsInt(n), AbsInt(d))
             s == SignInt(d)
         IN  <<(s * n) \div g, (s * d) \div g>>

\* The float of an integer.
Fl(n) == <<n, 1>>

nan == <<0, 0>>

infinity == <<1, 0>>

isnan(x) == x = nan

\* x + y over the least common denominator.
Add(x, y) ==
    IF x[2] = 0 \/ y[2] = 0 THEN Rat(x[1] * y[2] + y[1] * x[2], 0)
    ELSE LET g == GCD(x[2], y[2])
         IN  Rat(x[1] * (y[2] \div g) + y[1] * (x[2] \div g), (x[2] \div g) * y[2])

Neg(x) == <<-x[1], x[2]>>

Sub(x, y) == Add(x, Neg(y))

Mul(x, y) ==
    IF x[2] = 0 \/ y[2] = 0 THEN Rat(x[1] * y[1], 0)
    ELSE LET g == GCD(AbsInt(x[1]), y[2])
             h == GCD(AbsInt(y[1]), x[2])
         IN  <<(x[1] \div g) * (y[1] \div h), (x[2] \div h) * (y[2] \div g)>>

Div(x, y) ==
    IF y[1] = 0 \/ y[2] = 0 \/ x[2] = 0 THEN Rat(x[1] * y[2], x[2] * y[1])
    ELSE Mul(x, <<SignInt(y[1]) * y[2], AbsInt(y[1])>>)

\* x < y; false when either is NaN.
Lt(x, y) ==
    IF isnan(x) \/ isnan(y) THEN FALSE
    ELSE IF x[2] = 0 /\ y[2] = 0 THEN x[1] < y[1]
    ELSE IF x[2] = 0 \/ y[2] = 0 THEN x[1] * y[2] < y[1] * x[2]
    ELSE LET g == GCD(x[2], y[2])
         IN  x[1] * (y[2] \div g) < y[1] * (x[2] \div g)

Gt(x, y) == Lt(y, x)

\* x <= y; false when either is NaN.
Le(x, y) == ~isnan(x) /\ ~isnan(y) /\ ~Lt(y, x)

Ge(x, y) == Le(y, x)

\* x == y on floats; false when either is NaN.
Eq(x, y) == ~isnan(x) /\ x = y

fabs(x) == <<AbsInt(x[1]), x[2]>>

\* std::max(a, b) is (a < b) ? b : a, std::min(a, b) is (b < a) ? b : a.
fmax(a, b) == IF Lt(a, b) THEN b ELSE a

fmin(a, b) == IF Lt(b, a) THEN b ELSE a

(***************************************************************************)
(* Float3                                                                  *)
(***************************************************************************)
Float3(x, y, z) == [x |-> x, y |-> y, z |-> z]

\* Float3(float n): x = y = z = n.
Float3n(n) == Float3(n, n, n)

\* A point with integer coordinates.
Pt(x, y, z) == Float3(Fl(x), Fl(y), Fl(z))

\* A point with coordinates x/w, y/w, z/w.
PtW(x, y, z, w) == Float3(Rat(x, w), Rat(y, w), Rat(z, w))

V3Add(p, q) == Float3(Add(p.x, q.x), Add(p.y, q.y), Add(p.z, q.z))

V3Sub(p, q) == Float3(Sub(p.x, q.x), Sub(p.y, q.y), Sub(p.z, q.z))

V3SubScalar(p, s) == Float3(Sub(p.x, s), Sub(p.y, s), Sub(p.z, s))

V3Scale(p, s) == Float3(Mul(p.x, s), Mul(p.y, s), Mul(p.z, s))

dot(p, q) == Add(Add(Mul(p.x, q.x), Mul(p.y, q.y)), Mul(p.z, q.z))

V3Abs(p) == Float3(fabs(p.x), fabs(p.y), fabs(p.z))

sqrLength(p) == dot(p, p)

hasNan(p) == isnan(p.x) \/ isnan(p.y) \/ isnan(p.z)

\* Float3::operator==, component-wise.
V3Eq(p, q) == Eq(p.x, q.x) /\ Eq(p.y, q.y) /\ Eq(p.z, q.z)

(***************************************************************************)
(* computeClosestPointOnTriangle                                           *)
(***************************************************************************)
Zero == Fl(0)

One == Fl(1)

Two == Fl(2)

NoThrow == "none"

Collinear == "Collinear triangle vertices"

Unsupported == "Face has unsupported number of vertices"

EmptyMesh == "Empty mesh"

\* The coefficients of the squared-distance function of the triangle.
\* det, and the raw s1 and t1, of given a, b, c, d and e.
coefficients(edge0, edge1, a, b, c, d, e) ==
    [edge0 |-> edge0, edge1 |-> edge1,
     a |-> a, b |-> b, c |-> c, d |-> d, e |-> e,
     det |-> Sub(Mul(a, c), Mul(b, b)),
     s1 |-> Sub(Mul(b, e), Mul(c, d)),
     t1 |-> Sub(Mul(b, d), Mul(a, e))]

\* a, b, c, d and e of the edges and of v0 = vertex0 - fromPoint.
edgeProducts(edge0, edge1, v0) ==
    coefficients(edge0, edge1, dot(edge0, edge0), dot(edge0, edge1),
                 dot(edge1, edge1), dot(edge0, v0), dot(edge1, v0))

triangleCoefficients(vertex0, vertex1, vertex2, fromPoint) ==
    edgeProducts(V3Sub(vertex1, vertex0), V3Sub(vertex2, vertex0),
                 V3Sub(vertex0, fromPoint))

ST(region, s2, t2) == [region |-> region, s2 |-> s2, t2 |-> t2]

\* s2 of Regions 4 and 5 on the edge t = 0, when d < 0.
clampOnEdge0(k) == IF Ge(Neg(k.d), k.a) THEN One ELSE Div(Neg(k.d), k.a)

\* clampOnEdge1 that leaves the edge s = 0 on either side.
clampOnEdge1Unclamped(k) == Div(Neg(k.e), k.c)

\* t2 of Regions 3 and 4 on the edge s = 0.
clampOnEdge1(k) ==
    IF Ge(k.e, Zero) THEN Zero
    ELSE IF Ge(Neg(k.e), k.c) THEN One
    ELSE Div(Neg(k.e), k.c)

region4(k) ==
    IF Lt(k.d, Zero) THEN ST(4, clampOnEdge0(k), Zero)
    ELSE ST(4, Zero, clampOnEdge1(k))

region3(k) == ST(3, Zero, clampOnEdge1(k))

region5(k) ==
    ST(5, IF Ge(k.d, Zero) THEN Zero ELSE clampOnEdge0(k), Zero)

\* region0 with the two barycentric coordinates exchanged.
region0Exchanged(k) ==
    LET invDet == Div(One, k.det)
    IN  ST(0, Mul(k.t1, invDet), Mul(k.s1, invDet))

region0(k) ==
    LET invDet == Div(One, k.det)
    IN  ST(0, Mul(k.s1, invDet), Mul(k.t1, invDet))

\* region2 that stays at vertex0 when tmp1 <= 0.
region2AtVertex0(k) ==
    LET tmp0 == Add(k.b, k.d)
        tmp1 == Add(k.c, k.e)
        num == Sub(tmp1, tmp0)
        denom == Add(Sub(k.a, Mul(Two, k.b)), k.c)
        s2 == IF Ge(num, denom) THEN One ELSE Div(num, denom)
    IN  IF Gt(tmp1, tmp0) THEN ST(2, s2, Sub(One, s2))
        ELSE ST(2, Zero,
                IF Le(tmp1, Zero) THEN Zero
                ELSE IF Ge(k.e, Zero) THEN Zero
                ELSE Div(Neg(k.e), k.c))

region2(k) ==
    LET tmp0 == Add(k.b, k.d)
        tmp1 == Add(k.c, k.e)
        num == Sub(tmp1, tmp0)
        denom == Add(Sub(k.a, Mul(Two, k.b)), k.c)
        s2 == IF Ge(num, denom) THEN One ELSE Div(num, denom)
    IN  IF Gt(tmp1, tmp0) THEN ST(2, s2, Sub(One, s2))
        ELSE ST(2, Zero,
                IF Le(tmp1, Zero) THEN One
                ELSE IF Ge(k.e, Zero) THEN Zero
                ELSE Div(Neg(k.e), k.c))

\* In the first branch s2 is 1 - s2 with s2 still the raw s1 (line 188).
region6(k) ==
    LET tmp0 == Add(k.b, k.e)
        tmp1 == Add(k.a, k.d)
        num == Sub(tmp1, tmp0)
        denom == Add(Sub(k.a, Mul(Two, k.b)), k.c)
        t2 == IF Ge(num, denom) THEN One ELSE Div(num, denom)
    IN  IF Gt(tmp1, tmp0) THEN ST(6, Sub(One, k.s1), t2)
        ELSE ST(6,
                IF Le(tmp1, Zero) THEN One
                ELSE IF Ge(k.d, Zero) THEN Zero
                ELSE Div(Neg(k.d), k.a),
                Zero)

region1(k) ==
    LET num == Sub(Sub(Add(k.c, k.e), k.b), k.d)
        denom == Add(Sub(k.a, Mul(Two, k.b)), k.c)
        s2 == IF Le(num, Zero) THEN Zero
              ELSE IF Ge(num, denom) THEN One
              ELSE Div(num, denom)
    IN  ST(1, s2, Sub(One, s2))

\* The region of the raw (s1, t1) and the clamped (s2, t2).
selectRegion(k) ==
    IF Le(Add(k.s1, k.t1), k.det)
    THEN IF Lt(k.s1, Zero)
         THEN IF Lt(k.t1, Zero) THEN region4(k) ELSE region3(k)
         ELSE IF Lt(k.t1, Zero) THEN region5(k) ELSE region0(k)
    ELSE IF Lt(k.s1, Zero) THEN region2(k)
         ELSE IF Lt(k.t1, Zero) THEN region6(k) ELSE region1(k)

ClosestPointSpec(point, sqrDist) ==
    [throw |-> NoThrow, first |-> point, second |-> sqrDist]

Thrown(what) == [throw |-> what, first |-> Float3n(nan), second |-> nan]

\* The pair of a point of the triangle and its squared distance to fromPoint.
closestPointSpecOf(fromPoint, closestPoint) ==
    ClosestPointSpec(closestPoint, sqrLength(V3Sub(fromPoint, closestPoint)))

\* vertex0 + s2 * edge0 + t2 * edge1, and its squared distance.
closestPointAt(vertex0, fromPoint, k, st) ==
    closestPointSpecOf(fromPoint,
                       V3Add(V3Add(vertex0, V3Scale(k.edge0, st.s2)),
                             V3Scale(k.edge1, st.t2)))

\* solveTriangle that refuses only an edge of length zero.
solveTriangleWithEdges(vertex0, fromPoint, k) ==
    IF Eq(k.a, Zero) \/ Eq(k.c, Zero) THEN Thrown(Collinear)
    ELSE closestPointAt(vertex0, fromPoint, k, selectRegion(k))

\* The solver from det on: the throw, or the point of the clamped (s2, t2).
solveTriangle(vertex0, fromPoint, k) ==
    IF Eq(k.det, Zero) THEN Thrown(Collinear)
    ELSE closestPointAt(vertex0, fromPoint, k, selectRegion(k))

computeClosestPointOnTriangle(vertex0, vertex1, vertex2, fromPoint) ==
    solveTriangle(vertex0, fromPoint,
                  triangleCoefficients(vertex0, vertex1, vertex2, fromPoint))

(***************************************************************************)
(* computeClosestPointOnFace                                               *)
(***************************************************************************)
\* vertices[i] of the 0-based std::vector.
At(vertices, i) == vertices[i + 1]

\* closerOfHalves that gives a tie to the second triangle.
closerOfHalvesOrLast(result1, result2) ==
    IF result2.throw # NoThrow THEN result2
    ELSE IF Le(result2.second, result1.second) THEN result2
    ELSE result1

\* result2.second < result1.second ? result2 : result1
closerOfHalves(result1, result2) ==
    IF result2.throw # NoThrow THEN result2
    ELSE IF Lt(result2.second, result1.second) THEN result2
    ELSE result1

\* afterFirstTriangle that falls through to the half that did not throw.
afterFirstTriangleFallingThrough(face, vertices, queryPoint, result1) ==
    IF Len(face) = 3 THEN result1
    ELSE LET result2 == computeClosestPointOnTriangle(At(vertices, face[3]),
                                                      At(vertices, face[4]),
                                                      At(vertices, face[1]),
                                                      queryPoint)
         IN  IF result1.throw # NoThrow THEN result2
             ELSE IF result2.throw # NoThrow THEN result1
             ELSE closerOfHalves(result1, result2)

\* computeClosestPointOnFace from result1 on.
afterFirstTriangle(face, vertices, queryPoint, result1) ==
    IF result1.throw # NoThrow THEN result1
    ELSE IF Len(face) = 3 THEN result1
    ELSE closerOfHalves(result1,
                        computeClosestPointOnTriangle(At(vertices, face[3]),
                                                      At(vertices, face[4]),
                                                      At(vertices, face[1]),
                                                      queryPoint))

\* computeClosestPointOnFace that rejects more than four vertices only
\* after it solved the first triangle.
computeClosestPointOnFaceSolvingFirst(face, vertices, queryPoint) ==
    IF Len(face) < 3 THEN Thrown(Unsupported)
    ELSE IF computeClosestPointOnTriangle(At(vertices, face[1]),
                                          At(vertices, face[2]),
                                          At(vertices, face[3]),
                                          queryPoint).throw # NoThrow
         THEN Thrown(Collinear)
    ELSE IF Len(face) > 4 THEN Thrown(Unsupported)
    ELSE afterFirstTriangle(face, vertices, queryPoint,
                            computeClosestPointOnTriangle(At(vertices, face[1]),
                                                          At(vertices, face[2]),
                                                          At(vertices, face[3]),
                                                          queryPoint))

computeClosestPointOnFace(face, vertices, queryPoint) ==
    IF Len(face) < 3 \/ Len(face) > 4 THEN Thrown(Unsupported)
    ELSE afterFirstTriangle(face, vertices, queryPoint,
                            computeClosestPointOnTriangle(At(vertices, face[1]),
                                                          At(vertices, face[2]),
                                                          At(vertices, face[3]),
                                                          queryPoint))

(***************************************************************************)
(* Bounds of the mesh, of a face and of an octree node                     *)
(***************************************************************************)
Half == Rat(1, 2)

\* std::accumulate(seq.begin(), seq.end(), init, op): the left fold of op over
\* seq.  The range is folded half by half, the value accumulated over the
\* first half being computed (the comparison) before the second half starts.
accumulate(seq, init, op(_, _)) ==
    LET RECURSIVE over(_, _, _)
        over(first, last, acc) ==
            IF first > last THEN acc
            ELSE IF first = last THEN op(acc, seq[first])
            ELSE LET middle == (first + last) \div 2
                     left == over(first, middle, acc)
                 IN  IF left = acc THEN over(middle + 1, last, acc)
                     ELSE over(middle + 1, last, left)
    IN  over(1, Len(seq), init)

Extent(first, second) == [first |-> first, second |-> second]

EmptyExtent == Extent(Float3n(infinity), Float3n(Neg(infinity)))

growExtent(extent, point) ==
    Extent(Float3(fmin(extent.first.x, point.x),
                  fmin(extent.first.y, point.y),
                  fmin(extent.first.z, point.z)),
           Float3(fmax(extent.second.x, point.x),
                  fmax(extent.second.y, point.y),
                  fmax(extent.second.z, point.z)))

AABCube(center, halfWidth) == [center |-> center, halfWidth |-> halfWidth]

AABBox(center, halfWidth) == [center |-> center, halfWidth |-> halfWidth]

computeCubicBounds(extent) ==
    LET dimensions == V3Sub(extent.second, extent.first)
    IN  AABCube(V3Scale(V3Add(extent.first, extent.second), Half),
                Mul(Half, fmax(dimensions.x, fmax(dimensions.y, dimensions.z))))

\* computeBounds that gives a face the box of its least corner alone.
computeBoundsAtCorner(extent) == AABBox(extent.first, Float3n(Zero))

computeBounds(extent) ==
    LET dimensions == V3Sub(extent.second, extent.first)
    IN  AABBox(V3Scale(V3Add(extent.first, extent.second), Half),
               V3Scale(dimensions, Half))

computeSqrDistanceToBounds(queryPoint, bounds) ==
    LET d == V3SubScalar(V3Abs(V3Sub(queryPoint, bounds.center)), bounds.halfWidth)
    IN  sqrLength(Float3(fmax(d.x, Zero), fmax(d.y, Zero), fmax(d.z, Zero)))

\* An octree element of the engine: (the index of the face in m_faces, its box).
OctreeElement(face, box) == [first |-> face, second |-> box]

intersect(cube, element) ==
    LET box == element.second
        distances == V3Abs(V3Sub(cube.center, box.center))
        halfWidthSum == V3Add(Float3n(cube.halfWidth), box.halfWidth)
    IN  /\ Le(distances.x, halfWidthSum.x)
        /\ Le(distances.y, halfWidthSum.y)
        /\ Le(distances.z, halfWidthSum.z)

\* The intersect of the octree's unit test: the point is inside the cube.
pointInCube(cube, point) ==
    LET distances == V3Abs(V3Sub(cube.center, point))
    IN  /\ Le(distances.x, cube.halfWidth)
        /\ Le(distances.y, cube.halfWidth)
        /\ Le(distances.z, cube.halfWidth)

(***************************************************************************)
(* OctreeNode.  A tree is a function from the path of a node (the child    *)
(* indices from the root) to the node; child i of the node at path p       *)
(* exists iff Append(p, i) is in the domain.                               *)
(***************************************************************************)
defaultMaxDepth == 10

defaultMaxFill == 3

Root == << >>

\* The null std::unique_ptr<Node>.
NullNode == << >>

OctreeNode(bounds) ==
    [m_elements |-> << >>, m_bounds |-> bounds, m_isLeaf |-> TRUE]

hasChild(tree, path, index) == Append(path, index) \in DOMAIN tree

\* getChildBounds with children as wide as their parent.
getChildBoundsUnhalved(tree, path, index) ==
    IF hasChild(tree, path, index) THEN tree[Append(path, index)].m_bounds
    ELSE LET m_bounds == tree[path].m_bounds
             halfWidth == Mul(m_bounds.halfWidth, Half)
             sign(bit) == IF (index \div bit) % 2 = 1 THEN One ELSE Neg(One)
         IN  AABCube(Float3(Add(m_bounds.center.x, Mul(sign(1), halfWidth)),
                            Add(m_bounds.center.y, Mul(sign(2), halfWidth)),
                            Add(m_bounds.center.z, Mul(sign(4), halfWidth))),
                     m_bounds.halfWidth)

\* getChildBounds with the bits of x and y exchanged.
getChildBoundsTurned(tree, path, index) ==
    IF hasChild(tree, path, index) THEN tree[Append(path, index)].m_bounds
    ELSE LET m_bounds == tree[path].m_bounds
             halfWidth == Mul(m_bounds.halfWidth, Half)
             sign(bit) == IF (index \div bit) % 2 = 1 THEN One ELSE Neg(One)
         IN  AABCube(Float3(Add(m_bounds.center.x, Mul(sign(2), halfWidth)),
                            Add(m_bounds.center.y, Mul(sign(1), halfWidth)),
                            Add(m_bounds.center.z, Mul(sign(4), halfWidth))),
                     halfWidth)

getChildBounds(tree, path, index) ==
    IF hasChild(tree, path, index) THEN tree[Append(path, index)].m_bounds
    ELSE LET m_bounds == tree[path].m_bounds
             halfWidth == Mul(m_bounds.halfWidth, Half)
             sign(bit) == IF (index \div bit) % 2 = 1 THEN One ELSE Neg(One)
         IN  AABCube(Float3(Add(m_bounds.center.x, Mul(sign(1), halfWidth)),
                            Add(m_bounds.center.y, Mul(sign(2), halfWidth)),
                            Add(m_bounds.center.z, Mul(sign(4), halfWidth))),
                     halfWidth)

\* shouldSubdivide that still subdivides at depth maxDepth.
shouldSubdivideAtGate(node, depth, maxDepth, maxFill) ==
    LET depthFillRatio == Div(Fl(Len(node.m_elements)), Fl(1 + depth))
    IN  Gt(depthFillRatio, maxFill) /\ depth <= maxDepth

\* shouldSubdivide that subdivides as soon as the ratio reaches maxFill.
shouldSubdivideWhenFull(node, depth, maxDepth, maxFill) ==
    LET depthFillRatio == Div(Fl(Len(node.m_elements)), Fl(1 + depth))
    IN  Ge(depthFillRatio, maxFill) /\ depth < maxDepth

\* shouldSubdivide that divides the size by 2 + depth.
shouldSubdivideLate(node, depth, maxDepth, maxFill) ==
    LET depthFillRatio == Div(Fl(Len(node.m_elements)), Fl(2 + depth))
    IN  Gt(depthFillRatio, maxFill) /\ depth < maxDepth

\* Should the leaf at path, at this depth, be subdivided?
shouldSubdivide(node, depth, maxDepth, maxFill) ==
    LET depthFillRatio == Div(Fl(Len(node.m_elements)), Fl(1 + depth))
    IN  Gt(depthFillRatio, maxFill) /\ depth < maxDepth

\* The Intersect function passed to insert, called on a cube and an element.
Intersect(f, cube, element) ==
    CASE f = "intersect" -> intersect(cube, element)
      [] f = "pointInCube" -> pointInCube(cube, element)

RECURSIVE walkInsert(_, _, _, _, _, _, _)

\* walkChild that walks down untested under the children of the two
\* deepest levels.
walkChildAnyway(tree, path, element, f, childIndex, depth, maxDepth, maxFill) ==
    LET childBounds == getChildBounds(tree, path, childIndex)
        child == Append(path, childIndex)
        created == IF hasChild(tree, path, childIndex) THEN tree
                   ELSE tree @@ (child :> OctreeNode(childBounds))
    IN  IF depth + 2 >= maxDepth \/ Intersect(f, childBounds, element)
        THEN walkInsert(created, child, element, f, depth + 1, maxDepth, maxFill)
        ELSE tree

\* The body of the loop over m_children, for the child at childIndex.
walkChild(tree, path, element, f, childIndex, depth, maxDepth, maxFill) ==
    LET childBounds == getChildBounds(tree, path, childIndex)
        child == Append(path, childIndex)
        created == IF hasChild(tree, path, childIndex) THEN tree
                   ELSE tree @@ (child :> OctreeNode(childBounds))
    IN  IF Intersect(f, childBounds, element)
        THEN walkInsert(created, child, element, f, depth + 1, maxDepth, maxFill)
        ELSE tree

\* walkChildren that stops at the first child the element intersects.
walkChildrenToFirst(tree, path, element, f, depth, maxDepth, maxFill) ==
    LET taking == {childIndex \in 0..7 :
                      Intersect(f, getChildBounds(tree, path, childIndex), element)}
    IN  IF taking = {} THEN tree
        ELSE walkChild(tree, path, element, f,
                       CHOOSE first \in taking : \A i \in taking : first <= i,
                       depth, maxDepth, maxFill)

\* for (auto &child: m_children) { ...; ++childIndex; }
walkChildren(tree, path, element, f, depth, maxDepth, maxFill) ==
    accumulate(<<0, 1, 2, 3, 4, 5, 6, 7>>, tree,
               LAMBDA walked, childIndex :
                   walkChild(walked, path, element, f, childIndex,
                             depth, maxDepth, maxFill))

\* backToFront that starts at the front.
frontToBack(elements) == elements

\* The elements of a sequence from the back to the front.
backToFront(elements) ==
    [i \in 1..Len(elements) |-> elements[Len(elements) + 1 - i]]

\* pushElementsToChildren that leaves the elements in the subdivided node.
pushElementsToChildrenCopied(tree, path, f, depth, maxDepth, maxFill) ==
    accumulate(backToFront(tree[path].m_elements), tree,
               LAMBDA pushed, back :
                   walkInsert(pushed, path, back, f, depth, maxDepth, maxFill))

\* while (!m_elements.empty()) { walkInsert(m_elements.back()); pop_back(); }
pushElementsToChildren(tree, path, f, depth, maxDepth, maxFill) ==
    accumulate(backToFront(tree[path].m_elements), tree,
               LAMBDA pushed, back :
                   [walkInsert(pushed, path, back, f, depth, maxDepth, maxFill)
                       EXCEPT ![path].m_elements = SubSeq(@, 1, Len(@) - 1)])

walkInsert(tree, path, element, f, depth, maxDepth, maxFill) ==
    IF tree[path].m_isLeaf
    THEN IF shouldSubdivide(tree[path], depth, maxDepth, maxFill)
         THEN LET subdivided == [tree EXCEPT ![path].m_isLeaf = FALSE]
                  pushed == pushElementsToChildren(subdivided, path, f, depth,
                                                   maxDepth, maxFill)
              IN  walkInsert(pushed, path, element, f, depth, maxDepth, maxFill)
         ELSE [tree EXCEPT ![path].m_elements = Append(@, element)]
    ELSE walkChildren(tree, path, element, f, depth, maxDepth, maxFill)

\* OctreeNode::insert on the node at path.
insert(tree, path, element, f, maxDepth, maxFill) ==
    walkInsert(tree, path, element, f, 0, maxDepth, maxFill)

\* The present children of the node at path, in the order accept visits them.
children(tree, path) ==
    LET present[i \in 0..8] ==
            IF i = 0 THEN << >>
            ELSE IF hasChild(tree, path, i - 1)
                 THEN Append(present[i - 1], Append(path, i - 1))
                 ELSE present[i - 1]
    IN  present[8]

\* accept(visitElement) with a visitor that records what it is called on.
elements(tree, path) ==
    accumulate(tree[path].m_elements, << >>,
               LAMBDA seen, element : Append(seen, element))

(***************************************************************************)
(* ClosestPointQuery::Impl                                                 *)
(***************************************************************************)
minSpacePartitioningFaces == 32

\* faceClosest.second < sqrMaxDist && faceClosest.second < inputClosest.second
\*     ? faceClosest : inputClosest
closestWithin(sqrMaxDist, inputClosest, faceClosest) ==
    IF faceClosest.throw # NoThrow THEN faceClosest
    ELSE IF /\ Lt(faceClosest.second, sqrMaxDist)
            /\ Lt(faceClosest.second, inputClosest.second)
         THEN faceClosest
         ELSE inputClosest

\* The lambda of processMesh; a pair that holds a throw is the exception
\* leaving std::accumulate.
reduceClosestPointOnFace(vertices, queryPoint, sqrMaxDist, inputClosest, face) ==
    IF inputClosest.throw # NoThrow THEN inputClosest
    ELSE closestWithin(sqrMaxDist, inputClosest,
                       computeClosestPointOnFace(face, vertices, queryPoint))

\* The indices of the faces, in the order of m_faces.
faceIndices(faces) == [i \in 1..Len(faces) |-> i]

\* std::accumulate over m_faces: the pair accumulated, and the faces
\* reduceClosestPointOnFace was called on before an exception left the loop.
scanFaces(vertices, faces, queryPoint, sqrMaxDist) ==
    accumulate(faceIndices(faces),
               [closest |-> ClosestPointSpec(Float3n(nan), infinity),
                evaluated |-> << >>],
               LAMBDA scan, i :
                   IF scan.closest.throw # NoThrow THEN scan
                   ELSE [closest |-> reduceClosestPointOnFace(
                                         vertices, queryPoint, sqrMaxDist,
                                         scan.closest, faces[i]),
                         evaluated |-> Append(scan.evaluated, i)])

\* The pair accumulated over the faces; processMesh returns its first.
processMesh(vertices, faces, queryPoint, sqrMaxDist) ==
    scanFaces(vertices, faces, queryPoint, sqrMaxDist).closest

\* The extent of the vertices of a face.
faceExtent(vertices, face) ==
    accumulate(face, EmptyExtent,
               LAMBDA extent, vertexId : growExtent(extent, At(vertices, vertexId)))

\* The octree over the faces; an element holds the index of its face.
partitionSpace(vertices, faces) ==
    LET meshExtent == accumulate(vertices, EmptyExtent, growExtent)
        rootNode == Root :> OctreeNode(computeCubicBounds(meshExtent))
        insertFace(tree, i) ==
            insert(tree, Root,
                   OctreeElement(i, computeBounds(faceExtent(vertices, faces[i]))),
                   "intersect", defaultMaxDepth, Fl(defaultMaxFill))
    IN  accumulate([i \in 1..Len(faces) |-> i], rootNode, insertFace)

HeapEntry(node, sqrDist) == [first |-> node, second |-> sqrDist]

\* updatedResult without the test against the search radius.
updatedResultAtAnyDistance(sqrMaxDist, result, faceClosest) ==
    IF faceClosest.throw # NoThrow THEN faceClosest
    ELSE IF Lt(faceClosest.second, result.second) THEN faceClosest
    ELSE result

\* if (faceClosest.second < sqrMaxDist && faceClosest.second < result.second)
\*     result = faceClosest;
updatedResult(sqrMaxDist, result, faceClosest) ==
    IF faceClosest.throw # NoThrow THEN faceClosest
    ELSE IF /\ Lt(faceClosest.second, sqrMaxDist)
            /\ Lt(faceClosest.second, result.second)
         THEN faceClosest
         ELSE result

\* visitElement on one element of a leaf: the result after it; a result that
\* holds a throw is the exception leaving accept.
visitElement(vertices, faces, queryPoint, sqrMaxDist, result, element) ==
    IF result.throw # NoThrow THEN result
    ELSE updatedResult(sqrMaxDist, result,
                       computeClosestPointOnFace(faces[element.first], vertices,
                                                 queryPoint))

\* visitChild on one child: the heap after it.
visitChild(tree, queryPoint, result, heap, child) ==
    LET nodeSqrDist == computeSqrDistanceToBounds(queryPoint, tree[child].m_bounds)
    IN  IF Lt(nodeSqrDist, result.second)
        THEN Append(heap, HeapEntry(child, nodeSqrDist))
        ELSE heap

\* top of a queue: the entry pushed first.
topPushedFirst(heap) == 1

\* heap.top(): an entry of the smallest squared distance; of several such
\* entries, the one pushed first.
top(heap) ==
    CHOOSE i \in 1..Len(heap) :
        /\ \A j \in 1..Len(heap) : ~Lt(heap[j].second, heap[i].second)
        /\ \A j \in 1..(i - 1) : Lt(heap[i].second, heap[j].second)

\* removeAt that leaves the entry where it is.
removeAtNone(seq, i) == seq

\* heap.pop(), of the entry at i.
removeAt(seq, i) == SubSeq(seq, 1, i - 1) \o SubSeq(seq, i + 1, Len(seq))

\* node.accept(visitElement): the result after the elements of the leaf, and
\* the faces visited before an exception left the loop.
acceptElements(vertices, faces, queryPoint, sqrMaxDist, result, evaluated, node) ==
    accumulate(node.m_elements, [result |-> result, evaluated |-> evaluated],
               LAMBDA visit, element :
                   IF visit.result.throw # NoThrow THEN visit
                   ELSE [result |-> visitElement(vertices, faces, queryPoint,
                                                 sqrMaxDist, visit.result, element),
                         evaluated |-> Append(visit.evaluated, element.first)])

\* node.accept(visitChild): the heap after the present children of the node.
acceptChildren(tree, queryPoint, result, heap, path) ==
    accumulate(children(tree, path), heap,
               LAMBDA entries, child :
                   visitChild(tree, queryPoint, result, entries, child))

(***************************************************************************)
(* The meshes given to the constructor                                     *)
(***************************************************************************)
Mesh(vertices, faces) == [vertices |-> vertices, faces |-> faces]

\* StubDensePlaneMesh<R>: (R+1)^2 vertices (x, y, y) / R and R^2 quads.
StubDensePlaneMesh(R) ==
    LET vertexIndex(x, y) == x + y * (R + 1)
        stepSize == Rat(1, R)
    IN  Mesh([k \in 1..((R + 1) * (R + 1)) |->
                 LET x == (k - 1) % (R + 1)
                     y == (k - 1) \div (R + 1)
                 IN  V3Scale(Pt(x, y, y), stepSize)],
             [k \in 1..(R * R) |->
                 LET x == (k - 1) % R
                     y == (k - 1) \div R
                 IN  <<vertexIndex(x, y), vertexIndex(x + 1, y),
                       vertexIndex(x + 1, y + 1), vertexIndex(x, y + 1)>>])

StubEmptyMesh == Mesh(<< >>, << >>)

StubSoloCollinearQuadMesh ==
    Mesh(<<Pt(1, 1, 1), Pt(2, 2, 2), Pt(3, 3, 3), Pt(4, 4, 4)>>, <<<<0, 1, 2, 3>>>>)

StubSoloPentagonMesh ==
    Mesh(<<Pt(0, 0, 0), Pt(1, 0, 0), Pt(1, 1, 0), Pt(0, 1, 0), PtW(0, 1, 0, 2)>>,
         <<<<0, 1, 2, 3, 4>>>>)

StubSoloTriangleMesh ==
    Mesh(<<Pt(0, 0, 0), Pt(1, 0, 0), Pt(0, 1, 0)>>, <<<<0, 1, 2>>>>)

StubSoloQuadMesh ==
    Mesh(<<Pt(0, 0, 0), Pt(1, 0, 0), Pt(1, 1, 0), Pt(0, 1, 0)>>, <<<<0, 1, 2, 3>>>>)

StubDualAdjacentTriangleMesh ==
    Mesh(<<Pt(0, 0, 0), Pt(1, 0, 0), Pt(0, 1, 0), PtW(1, 1, 2, 2)>>,
         <<<<0, 1, 2>>, <<1, 3, 2>>>>)

StubDualApartTriangleMesh ==
    Mesh(<<Pt(0, 0, -1), Pt(1, 0, -1), Pt(0, 1, -1),
           Pt(0, 0, 1), Pt(1, 0, 1), Pt(0, 1, 1)>>,
         <<<<0, 1, 2>>, <<3, 4, 5>>>>)

\* A mesh with more vertices, and with more faces over the added vertices.
extended(mesh, vertices, faces) ==
    LET n == Len(mesh.vertices)
    IN  Mesh(mesh.vertices \o vertices,
             mesh.faces \o [i \in 1..Len(faces) |->
                               [j \in 1..Len(faces[i]) |-> n + faces[i][j]]])

\* A mesh with every vertex scaled.
scaled(mesh, factor) ==
    Mesh([i \in 1..Len(mesh.vertices) |-> V3Scale(mesh.vertices[i], factor)],
         mesh.faces)

\* No vertex, one face.
FacesOnlyMesh == Mesh(<< >>, <<<<0, 1, 2>>>>)

\* Three vertices, no face.
VerticesOnlyMesh == Mesh(<<Pt(0, 0, 0), Pt(1, 0, 0), Pt(0, 1, 0)>>, << >>)

\* The solo triangle and a vertex that no face uses.
StrayVertexMesh == extended(StubSoloTriangleMesh, <<Pt(2, 2, 1)>>, << >>)

\* A pentagon whose first three vertices are collinear.
CollinearPentagonMesh ==
    Mesh(<<Pt(0, 0, 0), Pt(1, 0, 0), Pt(2, 0, 0), Pt(2, 1, 0), Pt(0, 1, 0)>>,
         <<<<0, 1, 2, 3, 4>>>>)

\* A face of two vertex ids, neither of them an index of the vertex array.
SegmentMesh == Mesh(<<Pt(0, 0, 0), Pt(1, 0, 0), Pt(0, 1, 0)>>, <<<<5, 6>>>>)

\* A triangle whose angle at its second vertex is obtuse.
SliverMesh ==
    Mesh(<<PtW(0, 5, 0, 2), PtW(1, 3, 0, 2), Pt(1, 1, 0)>>, <<<<0, 1, 2>>>>)

\* A quad folded along its diagonal v0-v2: its halves are mirror images.
FoldedQuadMesh ==
    Mesh(<<Pt(0, 0, 0), Pt(1, 0, 1), Pt(0, 1, 0), Pt(-1, 0, 1)>>, <<<<0, 1, 2, 3>>>>)

\* The smallest R for which StubDensePlaneMesh<R> is partitioned.
partitionedResolution ==
    CHOOSE R \in 1..minSpacePartitioningFaces :
        /\ R * R >= minSpacePartitioningFaces
        /\ (R - 1) * (R - 1) < minSpacePartitioningFaces

\* The dense plane with vertices 1/4 apart in x.
DensePlaneMesh ==
    scaled(StubDensePlaneMesh(partitionedResolution), Rat(partitionedResolution, 4))

\* The dense plane and a triangle apart from it.
GappedPlaneMesh ==
    extended(DensePlaneMesh, <<PtW(0, 5, 0, 4), PtW(2, 5, 0, 4), PtW(4, 6, 0, 4)>>,
             <<<<0, 1, 2>>>>)

\* The dense plane and a pentagon apart from it.
PentagonPlaneMesh ==
    extended(DensePlaneMesh,
             <<PtW(0, 5, 0, 4), PtW(2, 5, 0, 4), PtW(4, 5, 0, 4),
               PtW(4, 6, 0, 4), PtW(0, 6, 0, 4)>>,
             <<<<0, 1, 2, 3, 4>>>>)

\* A valid triangle and a face that names one vertex twice.
PinchedTriangleMesh ==
    Mesh(StubSoloTriangleMesh.vertices, <<<<0, 1, 2>>, <<0, 1, 1>>>>)

Meshes ==
    { StubEmptyMesh, StubSoloCollinearQuadMesh, StubSoloPentagonMesh,
      StubSoloTriangleMesh, StubSoloQuadMesh, StubDualAdjacentTriangleMesh,
      StubDualApartTriangleMesh, FacesOnlyMesh, VerticesOnlyMesh,
      StrayVertexMesh, CollinearPentagonMesh, SegmentMesh, SliverMesh,
      FoldedQuadMesh, GappedPlaneMesh, PentagonPlaneMesh, PinchedTriangleMesh }

(***************************************************************************)
(* The queries: points of an integer grid and radii                        *)
(***************************************************************************)
QMax == 2

ZMax == 1

MaxRadius == 2

QueryPoints == {Pt(x, y, z) : x \in 0..QMax, y \in 0..QMax, z \in 0..ZMax}

Radii == {Fl(r) : r \in 0..MaxRadius} \cup {infinity}

(***************************************************************************)
(* The state machine: one ClosestPointQuery, constructed once and queried  *)
(***************************************************************************)
VARIABLES
    ctor,                \* "none", "ok", or what the constructor threw
    m_vertices,          \* Impl::m_vertices
    m_faces,             \* Impl::m_faces
    m_partitionedSpace,  \* Impl::m_partitionedSpace: the octree, or NullNode
    pc,                  \* "idle", "search" (in the loop of the indexed path), "done"
    queryPoint,          \* the arguments of the running or last operator()
    maxDist,
    heap,                \* the heap of processPartitionedSpace
    result,              \* the running result of the query
    outcome,             \* what operator() returned or threw
    evaluated,           \* the faces computeClosestPointOnFace was called on
    visited,             \* the heap entries the loop popped, in the order of the pops
    origin,              \* the query whose returned point is queried again
    provider,            \* the Mesh the caller constructed the engine from
    other,               \* a second call of operator(), on another thread
    rootNode,            \* an OctreeNode<Point> built by calls of insert
    insertion,           \* the arguments of those calls
    inserted             \* how many times each point was inserted

vars == <<ctor, m_vertices, m_faces, m_partitionedSpace, pc, queryPoint,
          maxDist, heap, result, outcome, evaluated, visited, origin, provider, other,
          rootNode, insertion, inserted>>

\* The octree under construction by its own.
octree == <<rootNode, insertion, inserted>>

\* What a query of the engine leaves alone.
apart == <<provider, other, rootNode, insertion, inserted>>

engine == <<ctor, m_vertices, m_faces, m_partitionedSpace>>

\* What operator() gave its caller.
Returned(point) == [throw |-> NoThrow, value |-> point]

Raised(what) == [throw |-> what, value |-> Float3n(nan)]

Pending == [throw |-> "pending", value |-> Float3n(nan)]

\* The locals of a call of operator(), before and after the call.
QueryState(position, point, radius, nodes, best, answer, faces) ==
    [pc |-> position, queryPoint |-> point, maxDist |-> radius, heap |-> nodes,
     result |-> best, outcome |-> answer, evaluated |-> faces]

IdleQuery ==
    QueryState("idle", Float3n(nan), nan, << >>,
               ClosestPointSpec(Float3n(nan), infinity), Pending, << >>)

\* No insert was called.
NoInsertion ==
    [bounds |-> AABCube(Float3n(Zero), Zero), points |-> {}, times |-> 0,
     maxDepth |-> 0, maxFill |-> Zero, intersect |-> "pointInCube"]

Init ==
    /\ ctor = "none"
    /\ m_vertices = << >>
    /\ m_faces = << >>
    /\ m_partitionedSpace = NullNode
    /\ pc = "idle"
    /\ queryPoint = Float3n(nan)
    /\ maxDist = nan
    /\ heap = << >>
    /\ result = ClosestPointSpec(Float3n(nan), infinity)
    /\ outcome = Pending
    /\ evaluated = << >>
    /\ visited = << >>
    /\ origin = << >>
    /\ provider = StubEmptyMesh
    /\ other = IdleQuery
    /\ rootNode = NullNode
    /\ insertion = NoInsertion
    /\ inserted = << >>

\* Impl::Impl that also refuses a mesh without faces.
ImplRequiringFaces(mesh) ==
    IF mesh.vertices = << >> \/ mesh.faces = << >>
    THEN [throw |-> EmptyMesh, m_vertices |-> mesh.vertices,
          m_faces |-> mesh.faces, m_partitionedSpace |-> NullNode]
    ELSE [throw |-> NoThrow, m_vertices |-> mesh.vertices, m_faces |-> mesh.faces,
          m_partitionedSpace |->
              IF Len(mesh.faces) >= minSpacePartitioningFaces
              THEN partitionSpace(mesh.vertices, mesh.faces)
              ELSE NullNode]

\* Impl::Impl: the members when the constructor returns or throws, and what
\* it threw.
Impl(mesh) ==
    IF mesh.vertices = << >>
    THEN [throw |-> EmptyMesh, m_vertices |-> mesh.vertices,
          m_faces |-> mesh.faces, m_partitionedSpace |-> NullNode]
    ELSE [throw |-> NoThrow, m_vertices |-> mesh.vertices, m_faces |-> mesh.faces,
          m_partitionedSpace |->
              IF Len(mesh.faces) >= minSpacePartitioningFaces
              THEN partitionSpace(mesh.vertices, mesh.faces)
              ELSE NullNode]

\* ClosestPointQuery::ClosestPointQuery(const Mesh &m)
Construct(mesh) ==
    /\ ctor = "none"
    /\ LET impl == Impl(mesh)
       IN  /\ ctor' = IF impl.throw = NoThrow THEN "ok" ELSE impl.throw
           /\ m_vertices' = impl.m_vertices
           /\ m_faces' = impl.m_faces
           /\ m_partitionedSpace' = impl.m_partitionedSpace
    /\ provider' = mesh
    /\ UNCHANGED <<pc, queryPoint, maxDist, heap, result, outcome, evaluated, visited, origin>>
    /\ UNCHANGED <<other, octree>>

\* operator() up to the return of processMesh, or up to the loop of
\* processPartitionedSpace.
Call(q, r) ==
    LET sqrMaxDist == Mul(r, r)
    IN  /\ queryPoint' = q
        /\ maxDist' = r
        /\ visited' = << >>
        /\ IF m_partitionedSpace # NullNode
           THEN LET rootSqrDist ==
                        computeSqrDistanceToBounds(q, m_partitionedSpace[Root].m_bounds)
                IN  /\ result' = ClosestPointSpec(Float3n(nan), infinity)
                    /\ heap' = <<HeapEntry(Root, rootSqrDist)>>
                    /\ evaluated' = << >>
                    /\ outcome' = Pending
                    /\ pc' = "search"
           ELSE LET scan == scanFaces(m_vertices, m_faces, q, sqrMaxDist)
                IN  /\ result' = scan.closest
                    /\ heap' = << >>
                    /\ evaluated' = scan.evaluated
                    /\ outcome' = IF scan.closest.throw # NoThrow
                                  THEN Raised(scan.closest.throw)
                                  ELSE Returned(scan.closest.first)
                    /\ pc' = "done"

\* ClosestPointQuery::operator() on a point of the grid.
Query(q, r) ==
    /\ ctor = "ok"
    /\ pc = "idle"
    /\ Call(q, r)
    /\ UNCHANGED <<engine, origin, apart>>

\* One turn of the loop of processPartitionedSpace.
SearchStep ==
    /\ pc = "search"
    /\ heap # << >>
    /\ Lt(heap[top(heap)].second, result.second)
    /\ LET path == heap[top(heap)].first
           node == m_partitionedSpace[path]
           popped == removeAt(heap, top(heap))
           visit == acceptElements(m_vertices, m_faces, queryPoint,
                                   Mul(maxDist, maxDist), result, evaluated, node)
       IN  IF node.m_isLeaf
           THEN /\ evaluated' = visit.evaluated
                /\ IF visit.result.throw # NoThrow
                   THEN /\ outcome' = Raised(visit.result.throw)
                        /\ pc' = "done"
                        /\ heap' = popped
                        /\ UNCHANGED result
                   ELSE /\ result' = visit.result
                        /\ heap' = popped
                        /\ UNCHANGED <<outcome, pc>>
           ELSE /\ heap' = acceptChildren(m_partitionedSpace, queryPoint, result,
                                          popped, path)
                /\ UNCHANGED <<result, outcome, pc, evaluated>>
    /\ visited' = Append(visited, heap[top(heap)])
    /\ UNCHANGED <<engine, queryPoint, maxDist, origin, apart>>

\* The loop of processPartitionedSpace ends: return result.first.
SearchReturn ==
    /\ pc = "search"
    /\ IF heap = << >> THEN TRUE
       ELSE ~Lt(heap[top(heap)].second, result.second)
    /\ outcome' = Returned(result.first)
    /\ pc' = "done"
    /\ UNCHANGED <<engine, queryPoint, maxDist, heap, result, evaluated, visited, origin, apart>>

\* The caller queries the point it was returned, with the same radius.
Requery ==
    /\ pc = "done"
    /\ origin = << >>
    /\ outcome.throw = NoThrow
    /\ ~hasNan(outcome.value)
    /\ origin' = <<[queryPoint |-> queryPoint, maxDist |-> maxDist,
                    value |-> outcome.value]>>
    /\ Call(outcome.value, maxDist)
    /\ UNCHANGED <<engine, apart>>

\* The caller is done with what operator() gave it.
Release ==
    /\ pc = "done"
    /\ pc' = "idle"
    /\ queryPoint' = Float3n(nan)
    /\ maxDist' = nan
    /\ heap' = << >>
    /\ result' = ClosestPointSpec(Float3n(nan), infinity)
    /\ outcome' = Pending
    /\ evaluated' = << >>
    /\ visited' = << >>
    /\ origin' = << >>
    /\ UNCHANGED <<engine, apart>>

Next ==
    \/ \E mesh \in Meshes : Construct(mesh)
    \/ \E q \in QueryPoints, r \in Radii : Query(q, r)
    \/ SearchStep
    \/ SearchReturn
    \/ Requery
    \/ Release

Spec == Init /\ [][Next]_vars

(***************************************************************************)
(* operator() as a function of the engine and of the locals of the call,   *)
(* for the calls that run beside the one of the variables above.           *)
(***************************************************************************)
\* processMesh returned or threw.
scanned(q, r, scan) ==
    QueryState("done", q, r, << >>, scan.closest,
               IF scan.closest.throw # NoThrow THEN Raised(scan.closest.throw)
               ELSE Returned(scan.closest.first),
               scan.evaluated)

\* operator() up to the return of processMesh, or up to the loop of
\* processPartitionedSpace.
started(tree, vertices, faces, q, r) ==
    IF tree # NullNode
    THEN QueryState("search", q, r,
                    <<HeapEntry(Root, computeSqrDistanceToBounds(q, tree[Root].m_bounds))>>,
                    ClosestPointSpec(Float3n(nan), infinity), Pending, << >>)
    ELSE scanned(q, r, scanFaces(vertices, faces, q, Mul(r, r)))

\* return result.first
returned(call) ==
    [call EXCEPT !.outcome = Returned(call.result.first), !.pc = "done"]

\* The call after node.accept(visitElement) on the node popped.
leafVisited(call, popped, visit) ==
    IF visit.result.throw # NoThrow
    THEN [call EXCEPT !.evaluated = visit.evaluated,
                      !.outcome = Raised(visit.result.throw),
                      !.heap = popped,
                      !.pc = "done"]
    ELSE [call EXCEPT !.evaluated = visit.evaluated,
                      !.result = visit.result,
                      !.heap = popped]

\* The call after the body of the loop on the node at the top of the heap.
nodeVisited(tree, vertices, faces, call, path, popped) ==
    IF tree[path].m_isLeaf
    THEN leafVisited(call, popped,
                     acceptElements(vertices, faces, call.queryPoint,
                                    Mul(call.maxDist, call.maxDist), call.result,
                                    call.evaluated, tree[path]))
    ELSE [call EXCEPT !.heap = acceptChildren(tree, call.queryPoint, call.result,
                                              popped, path)]

\* One turn of the loop of processPartitionedSpace, or its exit.
stepped(tree, vertices, faces, call) ==
    IF call.heap = << >> THEN returned(call)
    ELSE IF ~Lt(call.heap[top(call.heap)].second, call.result.second)
    THEN returned(call)
    ELSE nodeVisited(tree, vertices, faces, call,
                     call.heap[top(call.heap)].first,
                     removeAt(call.heap, top(call.heap)))

\* The call run to its end with nothing beside it.
RECURSIVE completed(_, _, _, _)
completed(tree, vertices, faces, call) ==
    IF call.pc = "done" THEN call
    ELSE completed(tree, vertices, faces, stepped(tree, vertices, faces, call))

\* What operator()(q, r) gives on this engine.
alone(tree, vertices, faces, q, r) ==
    completed(tree, vertices, faces, started(tree, vertices, faces, q, r)).outcome

\* The running result a call reads and writes is its own local.
runningBestOfAny(own, shared) == shared

runningBest(own, shared) == own

\* operator() enters on the other thread.
OtherQuery(q, r) ==
    /\ ctor = "ok"
    /\ other.pc = "idle"
    /\ other' = started(m_partitionedSpace, m_vertices, m_faces, q, r)
    /\ UNCHANGED <<engine, pc, queryPoint, maxDist, heap, result, outcome,
                   evaluated, visited, origin, provider, octree>>

\* One turn of the loop, or its exit, on the other thread.
OtherStep ==
    /\ other.pc = "search"
    /\ other' = stepped(m_partitionedSpace, m_vertices, m_faces,
                        [other EXCEPT !.result = runningBest(other.result, result)])
    /\ UNCHANGED <<engine, pc, queryPoint, maxDist, heap, result, outcome,
                   evaluated, visited, origin, provider, octree>>

\* The other thread is done with what operator() gave it.
OtherRelease ==
    /\ other.pc = "done"
    /\ other' = IdleQuery
    /\ UNCHANGED <<engine, pc, queryPoint, maxDist, heap, result, outcome,
                   evaluated, visited, origin, provider, octree>>

\* The engines and the calls of the two threads.
ConcurrentMeshes == {StubDualApartTriangleMesh, PentagonPlaneMesh}

ConcurrentPoints == {Pt(0, 0, 0), Pt(2, 1, 0)}

OtherPoints == {Pt(1, 1, 1), Pt(2, 2, 0)}

ConcurrentRadii == {One, infinity}

NextConcurrent ==
    \/ \E mesh \in ConcurrentMeshes : Construct(mesh)
    \/ \E q \in ConcurrentPoints, r \in ConcurrentRadii : Query(q, r)
    \/ SearchStep
    \/ SearchReturn
    \/ Release
    \/ \E q \in OtherPoints, r \in ConcurrentRadii : OtherQuery(q, r)
    \/ OtherStep
    \/ OtherRelease

SpecConcurrent == Init /\ [][NextConcurrent]_vars

(***************************************************************************)
(* The caller: it owns the Mesh, which it may change once the engine is    *)
(* constructed, and it calls operator() on the positions of the unit test. *)
(***************************************************************************)
\* The engine keeps the Mesh it was given instead of its copies.
ProviderChangesSeen ==
    /\ ctor = "ok"
    /\ provider # StubEmptyMesh
    /\ provider' = StubEmptyMesh
    /\ m_vertices' = provider'.vertices
    /\ m_faces' = provider'.faces
    /\ UNCHANGED <<ctor, m_partitionedSpace, pc, queryPoint, maxDist, heap, result,
                   outcome, evaluated, visited, origin, other, octree>>

\* The caller empties its Mesh.
ProviderChanges ==
    /\ ctor = "ok"
    /\ provider # StubEmptyMesh
    /\ provider' = StubEmptyMesh
    /\ UNCHANGED <<engine, pc, queryPoint, maxDist, heap, result, outcome,
                   evaluated, visited, origin, other, octree>>

\* The positions of the scenario on the single triangle, with the point
\* the test expects and the region its WHEN clause names.
TestVector(x, y, w, px, py, pw, region) ==
    [position |-> PtW(x, y, 0, w), expectedResult |-> PtW(px, py, 0, pw),
     region |-> region]

TestVectors ==
    { TestVector(1, 1, 4, 1, 1, 4, 0), TestVector(1, 1, 1, 1, 1, 2, 1),
      TestVector(-2, 1, 2, 0, 1, 2, 3), TestVector(1, -2, 2, 1, 0, 2, 5),
      TestVector(-1, 4, 2, 0, 1, 1, 2), TestVector(-1, -1, 2, 0, 0, 1, 4),
      TestVector(4, -1, 2, 1, 0, 1, 6) }

CallerMeshes ==
    {StubSoloTriangleMesh, StubSoloCollinearQuadMesh, PentagonPlaneMesh}

CallerPoints == {vector.position : vector \in TestVectors}

CallerRadii == {One, infinity}

NextCaller ==
    \/ \E mesh \in CallerMeshes : Construct(mesh)
    \/ \E q \in CallerPoints, r \in CallerRadii : Query(q, r)
    \/ SearchStep
    \/ SearchReturn
    \/ Release
    \/ ProviderChanges

SpecCaller == Init /\ [][NextCaller]_vars

\* A turn of the loop of processPartitionedSpace, as the entry it pops:
\* the steps of SearchStep are the steps of the caller that pop an entry.
LoopTurns ==
    /\ pc = "search"
    /\ heap # << >>
    /\ Lt(heap[top(heap)].second, result.second)
    /\ visited' = Append(visited, heap[top(heap)])

\* The caller's thread runs on: operator() neither suspends nor blocks,
\* so a loop that can turn or exit does.
SpecRunning ==
    Init /\ [][NextCaller]_vars /\ WF_visited(LoopTurns) /\ WF_vars(SearchReturn)

(***************************************************************************)
(* The solver on its own: engines of one face, queried without a limit of  *)
(* distance on a grid of half steps around the face, so that every branch  *)
(* of every region is taken.                                               *)
(***************************************************************************)
\* The sliver with its obtuse angle at the third vertex of the face.
TurnedSliverMesh == Mesh(SliverMesh.vertices, <<<<0, 2, 1>>>>)

\* A quad whose triangle (v0, v1, v2) is collinear and whose triangle
\* (v2, v3, v0) is not.
FirstHalfCollinearQuadMesh ==
    Mesh(<<Pt(0, 0, 0), Pt(1, 0, 0), Pt(2, 0, 0), Pt(0, 1, 0)>>, <<<<0, 1, 2, 3>>>>)

\* The same quad from its third vertex on: (v2, v3, v0) is the collinear one.
SecondHalfCollinearQuadMesh ==
    Mesh(FirstHalfCollinearQuadMesh.vertices, <<<<2, 3, 0, 1>>>>)

SolverMeshes ==
    {StubSoloTriangleMesh, SliverMesh, TurnedSliverMesh, StubSoloQuadMesh,
     FirstHalfCollinearQuadMesh, SecondHalfCollinearQuadMesh}

HalfStepsMax == 5

SolverPoints ==
    {PtW(x, y, z, 2) : x \in (-HalfStepsMax)..HalfStepsMax,
                       y \in (-HalfStepsMax)..HalfStepsMax, z \in 0..1}

NextSolver ==
    \/ \E mesh \in SolverMeshes : Construct(mesh)
    \/ \E q \in SolverPoints : Query(q, infinity)
    \/ Release

SpecSolver == Init /\ [][NextSolver]_vars

(***************************************************************************)
(* An OctreeNode<Point> on its own, as the unit test of OctreeNode builds  *)
(* it: a root over given bounds, then calls of insert with fixed maxDepth  *)
(* and maxFill.                                                            *)
(***************************************************************************)
\* The same point ten times, maxDepth = 0 and maxFill = 0.
TenCopies ==
    [bounds |-> AABCube(Float3n(Zero), Half), points |-> {Pt(0, 0, 0)},
     times |-> 10, maxDepth |-> 0, maxFill |-> Zero, intersect |-> "pointInCube"]

\* The same point twenty times, maxDepth = 100 and maxFill = 3.
TwentyCopies ==
    [bounds |-> AABCube(Float3n(Zero), Half), points |-> {Pt(0, 0, 0)},
     times |-> 20, maxDepth |-> 100, maxFill |-> Fl(3),
     intersect |-> "pointInCube"]

\* A point in each corner, maxDepth = 10 and maxFill = 1.
EightCorners ==
    [bounds |-> AABCube(Float3n(Zero), Two),
     points |-> {Pt(x, y, z) : x \in {-1, 1}, y \in {-1, 1}, z \in {-1, 1}},
     times |-> 1, maxDepth |-> 10, maxFill |-> One, intersect |-> "pointInCube"]

MaxCopies == 2

MaxGate == 2

\* Three points of the unit cube, each up to MaxCopies times, under every
\* maxDepth up to MaxGate and a maxFill of 0 or 1.
FewPoints ==
    {[bounds |-> AABCube(Float3n(Zero), Half),
      points |-> {Pt(0, 0, 0), PtW(1, 1, 1, 4), PtW(-1, -1, 1, 4)},
      times |-> MaxCopies, maxDepth |-> gate, maxFill |-> Fl(fill),
      intersect |-> "pointInCube"] :
        gate \in 0..MaxGate, fill \in 0..1}

\* An element of the engine's octree: a face and the box around it.
Boxed(face, x, y, z, w, halfWidth) ==
    OctreeElement(face, AABBox(PtW(x, y, z, w), Float3n(halfWidth)))

\* Three boxes of the unit cube under the engine's intersect: one inside a
\* child cube, one across the plane x = 0, one around the centre; each up
\* to MaxCopies times, under every maxDepth up to MaxGate.
FewBoxes ==
    {[bounds |-> AABCube(Float3n(Zero), Half),
      points |-> {Boxed(0, 3, 3, 3, 8, Rat(1, 16)), Boxed(1, 0, 1, 1, 4, Rat(1, 8)),
                  Boxed(2, 0, 0, 0, 1, Rat(1, 16))},
      times |-> MaxCopies, maxDepth |-> gate, maxFill |-> One,
      intersect |-> "intersect"] :
        gate \in 1..MaxGate}

Insertions == {TenCopies, TwentyCopies, EightCorners} \cup FewPoints \cup FewBoxes

\* Node rootNode(bounds), and the arguments the test passes to insert.
ConstructNode(arguments) ==
    /\ rootNode = NullNode
    /\ rootNode' = (Root :> OctreeNode(arguments.bounds))
    /\ insertion' = arguments
    /\ inserted' = [point \in arguments.points |-> 0]
    /\ UNCHANGED <<engine, pc, queryPoint, maxDist, heap, result, outcome,
                   evaluated, visited, origin, provider, other>>

\* rootNode.insert(point, intersect, maxDepth, maxFill)
Insert(point) ==
    /\ rootNode # NullNode
    /\ point \in insertion.points
    /\ inserted[point] < insertion.times
    /\ rootNode' = insert(rootNode, Root, point, insertion.intersect,
                          insertion.maxDepth, insertion.maxFill)
    /\ inserted' = [inserted EXCEPT ![point] = @ + 1]
    /\ UNCHANGED <<engine, pc, queryPoint, maxDist, heap, result, outcome,
                   evaluated, visited, origin, provider, other, insertion>>

\* The elements partitionSpace inserts, and the arguments of its inserts.
faceElements(vertices, faces) ==
    {OctreeElement(i, computeBounds(faceExtent(vertices, faces[i]))) :
        i \in 1..Len(faces)}

facesInserted(tree, vertices, faces) ==
    [bounds |-> tree[Root].m_bounds, points |-> faceElements(vertices, faces),
     times |-> 1, maxDepth |-> defaultMaxDepth, maxFill |-> Fl(defaultMaxFill),
     intersect |-> "intersect"]

PartitionedMeshes == {DensePlaneMesh, PentagonPlaneMesh}

\* Impl::partitionSpace: the root over the cubic bounds of the mesh, and
\* every face inserted in the order of m_faces.
Partition(mesh) ==
    /\ rootNode = NullNode
    /\ rootNode' = partitionSpace(mesh.vertices, mesh.faces)
    /\ insertion' = facesInserted(rootNode', mesh.vertices, mesh.faces)
    /\ inserted' = [element \in insertion'.points |-> 1]
    /\ UNCHANGED <<engine, pc, queryPoint, maxDist, heap, result, outcome,
                   evaluated, visited, origin, provider, other>>

NextOctree ==
    \/ \E arguments \in Insertions : ConstructNode(arguments)
    \/ \E point \in insertion.points : Insert(point)
    \/ \E mesh \in PartitionedMeshes : Partition(mesh)

SpecOctree == Init /\ [][NextOctree]_vars

(***************************************************************************)
(* Reference geometry, computed independently of the solver                *)
(***************************************************************************)
Range(seq) == {seq[i] : i \in 1..Len(seq)}

\* The triangles a face of arity 3 or 4 stands for, as vertex-id triples.
trianglesOf(face) ==
    IF Len(face) = 3 THEN {<<face[1], face[2], face[3]>>}
    ELSE {<<face[1], face[2], face[3]>>, <<face[3], face[4], face[1]>>}

corners(vertices, ids) == <<At(vertices, ids[1]), At(vertices, ids[2]), At(vertices, ids[3])>>

isCollinear(tri) ==
    LET edge0 == V3Sub(tri[2], tri[1])
        edge1 == V3Sub(tri[3], tri[1])
    IN  Eq(Sub(Mul(dot(edge0, edge0), dot(edge1, edge1)),
               Mul(dot(edge0, edge1), dot(edge0, edge1))), Zero)

\* A face of a valid mesh: arity 3 or 4, ids in range, no collinear triangle.
validFace(vertices, face) ==
    /\ Len(face) \in {3, 4}
    /\ \A i \in 1..Len(face) : face[i] \in 0..(Len(vertices) - 1)
    /\ \A ids \in trianglesOf(face) : ~isCollinear(corners(vertices, ids))

validMesh(vertices, faces) ==
    /\ vertices # << >>
    /\ \A i \in 1..Len(faces) : validFace(vertices, faces[i])

\* Squared distance from p to the segment [a, b], a # b.
sqrDistanceToSegment(p, a, b) ==
    LET ab == V3Sub(b, a)
        u == Div(dot(V3Sub(p, a), ab), dot(ab, ab))
        clamped == fmin(One, fmax(Zero, u))
    IN  sqrLength(V3Sub(p, V3Add(a, V3Scale(ab, clamped))))

\* Barycentric coordinates <<s, t>> of the projection of p on the plane
\* of a non-collinear triangle: v0 + s*(v1 - v0) + t*(v2 - v0).
planeCoordinates(p, tri) ==
    LET edge0 == V3Sub(tri[2], tri[1])
        edge1 == V3Sub(tri[3], tri[1])
        w == V3Sub(p, tri[1])
        a == dot(edge0, edge0)
        b == dot(edge0, edge1)
        c == dot(edge1, edge1)
        det == Sub(Mul(a, c), Mul(b, b))
    IN  <<Div(Sub(Mul(c, dot(w, edge0)), Mul(b, dot(w, edge1))), det),
          Div(Sub(Mul(a, dot(w, edge1)), Mul(b, dot(w, edge0))), det)>>

insideTriangle(st) ==
    /\ Ge(st[1], Zero)
    /\ Ge(st[2], Zero)
    /\ Le(Add(st[1], st[2]), One)

pointAt(tri, st) ==
    V3Add(V3Add(tri[1], V3Scale(V3Sub(tri[2], tri[1]), st[1])),
          V3Scale(V3Sub(tri[3], tri[1]), st[2]))

\* p lies on the closed triangle.
onTriangle(p, tri) ==
    LET st == planeCoordinates(p, tri)
    IN  insideTriangle(st) /\ V3Eq(pointAt(tri, st), p)

\* The exact squared distance from p to the closed triangle.
exactSqrDistance(p, tri) ==
    LET st == planeCoordinates(p, tri)
    IN  IF insideTriangle(st) THEN sqrLength(V3Sub(p, pointAt(tri, st)))
        ELSE fmin(sqrDistanceToSegment(p, tri[1], tri[2]),
                  fmin(sqrDistanceToSegment(p, tri[2], tri[3]),
                       sqrDistanceToSegment(p, tri[3], tri[1])))

meshTriangles(vertices, faces) ==
    UNION {{corners(vertices, ids) : ids \in trianglesOf(faces[i])} : i \in 1..Len(faces)}

\* p lies on some face of the mesh.
onMesh(p, vertices, faces) ==
    \E tri \in meshTriangles(vertices, faces) : onTriangle(p, tri)

\* The exact squared distance from p to a valid mesh, +inf without faces.
least(values) ==
    IF values = {} THEN infinity
    ELSE CHOOSE x \in values : \A y \in values : Le(x, y)

exactMeshSqrDistance(p, vertices, faces) ==
    least({exactSqrDistance(p, tri) : tri \in meshTriangles(vertices, faces)})

\* What the state holds, in the words of the contract of operator().
Done == pc = "done"

\* The engine holds the snapshot of this mesh.
holds(mesh) == ctor = "ok" /\ m_vertices = mesh.vertices /\ m_faces = mesh.faces

isValid == validMesh(m_vertices, m_faces)

isIndexed == m_partitionedSpace # NullNode

sqrMaxDist == Mul(maxDist, maxDist)

hasReturned == Done /\ outcome.throw = NoThrow

isSentinel == hasReturned /\ hasNan(outcome.value)

isPoint == hasReturned /\ ~hasNan(outcome.value)

returnedSqrDist == sqrLength(V3Sub(queryPoint, outcome.value))

isFirstCall == origin = << >>

(***************************************************************************)
(* Claims                                                                  *)
(***************************************************************************)

\* C1: on a valid mesh, on the linear path and on the indexed path alike,
\* when some face has a point within the search radius of the query point,
\* operator() returns a point whose distance to the query point is the
\* exact minimum over all the faces.  Stated for faces strictly within the
\* radius; the face at exactly the radius is the case of C4.
C1_ExactMinimum ==
    (Done /\ isValid
          /\ Lt(exactMeshSqrDistance(queryPoint, m_vertices, m_faces), sqrMaxDist))
        => /\ isPoint
           /\ Eq(returnedSqrDist,
                 exactMeshSqrDistance(queryPoint, m_vertices, m_faces))

\* C2: for a non-collinear triangle the solver returns a point of the
\* closed triangle, no point of the triangle is closer to the query point,
\* and the squared distance it returns is the one of the returned point.
C2_SolverOptimal ==
    Done => \A i \in Range(evaluated) :
                validFace(m_vertices, m_faces[i]) =>
                    \A ids \in trianglesOf(m_faces[i]) :
                        LET tri == corners(m_vertices, ids)
                            spec == computeClosestPointOnTriangle(
                                        tri[1], tri[2], tri[3], queryPoint)
                        IN  /\ spec.throw = NoThrow
                            /\ onTriangle(spec.first, tri)
                            /\ Eq(spec.second, exactSqrDistance(queryPoint, tri))
                            /\ Eq(spec.second,
                                  sqrLength(V3Sub(queryPoint, spec.first)))

\* C3: with a radius r >= 0, a point that operator() returns and that is
\* not the sentinel is at most r away from the query point.
C3_RadiusRespected ==
    (isPoint /\ Ge(maxDist, Zero)) => Le(returnedSqrDist, sqrMaxDist)

\* C3 happens: the indexed search returns a point under a finite radius
\* that leaves some of the faces it evaluated outside.
C3_Witness ==
    /\ isPoint
    /\ isIndexed
    /\ maxDist = Fl(1)
    /\ Gt(returnedSqrDist, Zero)
    /\ \E i \in Range(evaluated) :
           /\ validFace(m_vertices, m_faces[i])
           /\ Gt(computeClosestPointOnFace(m_faces[i], m_vertices,
                                           queryPoint).second, sqrMaxDist)

\* C4: on a valid mesh with a radius r >= 0, operator() returns the
\* sentinel only when the exact distance from the query point to every
\* face is greater than r; a face at exactly r, and a query point on the
\* mesh with r = 0, give a point.
C4_SentinelExclusive ==
    (isSentinel /\ isValid /\ Ge(maxDist, Zero))
        => \A tri \in meshTriangles(m_vertices, m_faces) :
               Gt(exactSqrDistance(queryPoint, tri), sqrMaxDist)

\* C5: on a valid mesh the indexed search returns what the linear scan of
\* the same faces returns: the sentinel when the scan does, and otherwise
\* a point at the same distance from the query point.
C5_IndexEquivalence ==
    (hasReturned /\ isIndexed /\ isValid)
        => LET scan == processMesh(m_vertices, m_faces, queryPoint, sqrMaxDist)
           IN  /\ scan.throw = NoThrow
               /\ hasNan(scan.first) <=> hasNan(outcome.value)
               /\ ~hasNan(scan.first)
                      => Eq(sqrLength(V3Sub(queryPoint, scan.first)),
                            returnedSqrDist)

\* C6: on a valid mesh, when operator() returned a point p for a finite
\* radius r, operator() called with p and r returns p.
C6_Idempotent ==
    (hasReturned /\ ~isFirstCall /\ isValid /\ origin[1].maxDist # infinity)
        => outcome = Returned(origin[1].value)

\* C7 as written: on a valid mesh, operator() called with any vertex of the
\* vertex array and an infinite radius returns that vertex.  Stated for the
\* meshes that have a face.
C7_AnyVertex ==
    (Done /\ isFirstCall /\ isValid /\ m_faces # << >> /\ maxDist = infinity
          /\ queryPoint \in Range(m_vertices))
        => outcome = Returned(queryPoint)

referencedVertices(vertices, faces) ==
    {At(vertices, faces[i][j]) : i \in 1..Len(faces), j \in 1..3} \cup
    {At(vertices, faces[i][4]) : i \in {k \in 1..Len(faces) : Len(faces[k]) = 4}}

\* C7 amended: on a valid mesh, operator() called with a vertex that some
\* face refers to, and an infinite radius, returns that vertex.
C7_ReferencedVertex ==
    (Done /\ isFirstCall /\ isValid /\ maxDist = infinity
          /\ queryPoint \in referencedVertices(m_vertices, m_faces))
        => outcome = Returned(queryPoint)

\* C7 happens: the query point is the second or third vertex of a triangle
\* of a mesh that also holds a vertex no face refers to.
C7_Witness ==
    /\ Done /\ isFirstCall /\ isValid /\ maxDist = infinity
    /\ \E i \in 1..Len(m_faces) : queryPoint \in {At(m_vertices, m_faces[i][2]),
                                                  At(m_vertices, m_faces[i][3])}
    /\ Range(m_vertices) # referencedVertices(m_vertices, m_faces)
    /\ outcome = Returned(queryPoint)

\* C8: a quad is evaluated as the triangles (v0, v1, v2) and (v2, v3, v0);
\* the face's closest point is the one of the triangle with the smaller
\* squared distance, and the one of (v0, v1, v2) when both are equal.
C8_QuadAsTwoTriangles ==
    Done => \A i \in Range(evaluated) :
                (Len(m_faces[i]) = 4 /\ validFace(m_vertices, m_faces[i])) =>
                    LET v == [j \in 1..4 |-> At(m_vertices, m_faces[i][j])]
                        result1 == computeClosestPointOnTriangle(
                                       v[1], v[2], v[3], queryPoint)
                        result2 == computeClosestPointOnTriangle(
                                       v[3], v[4], v[1], queryPoint)
                    IN  computeClosestPointOnFace(m_faces[i], m_vertices, queryPoint)
                            = IF Lt(result2.second, result1.second)
                              THEN result2 ELSE result1

\* C8 happens: both halves of a quad are at the same distance from the
\* query point, at different points, and the first half's point is returned.
C8_Witness ==
    /\ isPoint
    /\ \E i \in Range(evaluated) :
           /\ Len(m_faces[i]) = 4
           /\ validFace(m_vertices, m_faces[i])
           /\ LET v == [j \in 1..4 |-> At(m_vertices, m_faces[i][j])]
                  result1 == computeClosestPointOnTriangle(
                                 v[1], v[2], v[3], queryPoint)
                  result2 == computeClosestPointOnTriangle(
                                 v[3], v[4], v[1], queryPoint)
              IN  /\ Eq(result1.second, result2.second)
                  /\ ~V3Eq(result1.first, result2.first)
                  /\ outcome = Returned(result1.first)

\* C9: the constructor throws EmptyMesh exactly when the vertex list is
\* empty, and otherwise succeeds whatever the faces are: none, of an arity
\* other than 3 or 4, collinear, or with ids out of range.
C9_EmptyMeshOnly ==
    ctor # "none"
        => /\ ctor = EmptyMesh <=> m_vertices = << >>
           /\ ctor = "ok" <=> m_vertices # << >>

\* C9 happens: construction succeeded on a mesh with a face of arity other
\* than 3 or 4 whose ids are out of range.
C9_Witness ==
    /\ ctor = "ok"
    /\ \E i \in 1..Len(m_faces) :
           /\ Len(m_faces[i]) \notin {3, 4}
           /\ \E j \in 1..Len(m_faces[i]) : m_faces[i][j] >= Len(m_vertices)

\* C10: whenever operator() evaluates a face whose arity is neither 3 nor
\* 4 it raises the arity error: no point and no sentinel is returned, and
\* no error of the solver takes its place.
C10_ArityError ==
    Done => ((\E i \in Range(evaluated) : Len(m_faces[i]) \notin {3, 4})
                => outcome = Raised(Unsupported))

\* C10 happens: the indexed search reaches a face of five vertices whose
\* first three are collinear, after it evaluated faces of arity 4.
C10_Witness ==
    /\ Done
    /\ isIndexed
    /\ outcome = Raised(Unsupported)
    /\ \E i \in Range(evaluated) :
           /\ Len(m_faces[i]) = 5
           /\ isCollinear(corners(m_vertices, m_faces[i]))
    /\ \E i \in Range(evaluated) : Len(m_faces[i]) = 4

\* The three points lie on one line: the cross product of the two edges
\* from the first point is the null vector.
onOneLine(tri) ==
    LET u == V3Sub(tri[2], tri[1])
        v == V3Sub(tri[3], tri[1])
    IN  /\ Eq(Sub(Mul(u.y, v.z), Mul(u.z, v.y)), Zero)
        /\ Eq(Sub(Mul(u.z, v.x), Mul(u.x, v.z)), Zero)
        /\ Eq(Sub(Mul(u.x, v.y), Mul(u.y, v.x)), Zero)

\* The faces operator() evaluated whose vertices the solver can read.
solvedFaces ==
    {i \in Range(evaluated) :
        /\ Len(m_faces[i]) \in {3, 4}
        /\ \A j \in 1..Len(m_faces[i]) : m_faces[i][j] \in 0..(Len(m_vertices) - 1)}

\* C11: the solver raises the degenerate-triangle error exactly when the
\* three vertices lie on one line (two coincident vertices included), for
\* every query point; on the mesh of one quad with four vertices on a line
\* construction succeeds and every query raises that error.
C11_DegenerateIffCollinear ==
    /\ Done => \A i \in solvedFaces :
                   LET tri == corners(m_vertices, m_faces[i])
                       spec == computeClosestPointOnTriangle(
                                   tri[1], tri[2], tri[3], queryPoint)
                   IN  /\ spec.throw \in {NoThrow, Collinear}
                       /\ spec.throw = Collinear <=> onOneLine(tri)
    /\ (ctor # "none" /\ m_vertices = StubSoloCollinearQuadMesh.vertices
                      /\ m_faces = StubSoloCollinearQuadMesh.faces)
           => /\ ctor = "ok"
              /\ Done => outcome = Raised(Collinear)

\* C11 happens: the query on the collinear quad, with a radius of zero,
\* raised the degenerate-triangle error.
C11_Witness ==
    /\ Done
    /\ m_faces = StubSoloCollinearQuadMesh.faces
    /\ onOneLine(corners(m_vertices, m_faces[1]))
    /\ m_vertices[1] # m_vertices[2]
    /\ maxDist = Zero
    /\ outcome = Raised(Collinear)

\* The orderings of three vertices.
orderings ==
    {<<1, 2, 3>>, <<1, 3, 2>>, <<2, 1, 3>>, <<2, 3, 1>>, <<3, 1, 2>>, <<3, 2, 1>>}

\* C14: for non-collinear vertices and any query point the solver returns
\* the same closest point and the same squared distance for every ordering
\* of the three vertices.
C14_OrientationAgnostic ==
    Done => \A i \in Range(evaluated) :
                validFace(m_vertices, m_faces[i]) =>
                    \A ids \in trianglesOf(m_faces[i]), o \in orderings :
                        LET tri == corners(m_vertices, ids)
                        IN  computeClosestPointOnTriangle(
                                tri[o[1]], tri[o[2]], tri[o[3]], queryPoint)
                            = computeClosestPointOnTriangle(
                                  tri[1], tri[2], tri[3], queryPoint)

\* The leaves of the octree that store the face of index i.
leavesStoring(tree, i) ==
    {l \in DOMAIN tree :
        /\ tree[l].m_isLeaf
        /\ \E e \in Range(tree[l].m_elements) : e.first = i}

\* The node at path l and its ancestors up to the root.
pathToRoot(l) == {SubSeq(l, 1, n) : n \in 0..Len(l)}

\* The exact squared distance from p to the face of index i of a valid mesh.
exactFaceSqrDistance(p, vertices, face) ==
    least({exactSqrDistance(p, corners(vertices, ids)) : ids \in trianglesOf(face)})

\* C20 as written: in the octree of the engine, for every node N and every
\* point p, the squared distance from p to the bounds of N is at most the
\* squared distance from p to any face stored in a leaf under N.
C20_EveryLeaf ==
    (Done /\ isIndexed /\ isValid)
        => \A i \in 1..Len(m_faces) :
               \A l \in leavesStoring(m_partitionedSpace, i) :
                 \A n \in pathToRoot(l) :
                   Le(computeSqrDistanceToBounds(queryPoint,
                                                 m_partitionedSpace[n].m_bounds),
                      exactFaceSqrDistance(queryPoint, m_vertices, m_faces[i]))

\* C20 amended: for every face and every point p, some leaf that stores
\* the face is such that the squared distance from p to the bounds of the
\* leaf, and of each of its ancestors, is at most the squared distance from
\* p to the face.
C20_SomeLeaf ==
    (Done /\ isIndexed /\ isValid)
        => \A i \in 1..Len(m_faces) :
               \E l \in leavesStoring(m_partitionedSpace, i) :
                   \A n \in pathToRoot(l) :
                       Le(computeSqrDistanceToBounds(queryPoint,
                                                     m_partitionedSpace[n].m_bounds),
                          exactFaceSqrDistance(queryPoint, m_vertices, m_faces[i]))

\* C20 happens: a face is stored in two leaves, one of them farther from
\* the query point than the face is, the other not.
C20_Witness ==
    /\ Done /\ isIndexed /\ isValid
    /\ \E i \in 1..Len(m_faces) :
           \E l, m \in leavesStoring(m_partitionedSpace, i) :
               /\ Gt(computeSqrDistanceToBounds(queryPoint,
                                                m_partitionedSpace[l].m_bounds),
                     exactFaceSqrDistance(queryPoint, m_vertices, m_faces[i]))
               /\ Le(computeSqrDistanceToBounds(queryPoint,
                                                m_partitionedSpace[m].m_bounds),
                     exactFaceSqrDistance(queryPoint, m_vertices, m_faces[i]))

(***************************************************************************)
(* Claims on the octree built by insert                                    *)
(***************************************************************************)
\* The leaves of the octree under construction.
leafPaths == {l \in DOMAIN rootNode : rootNode[l].m_isLeaf}

\* The number of calls of insert so far.
RECURSIVE sumOver(_, _)
sumOver(count, points) ==
    IF points = {} THEN 0
    ELSE LET point == CHOOSE q \in points : TRUE
         IN  count[point] + sumOver(count, points \ {point})

insertedCount == sumOver(inserted, DOMAIN inserted)

fill(path) == Len(rootNode[path].m_elements)

\* C16: no leaf at depth maxDepth or more is subdivided, so no node is
\* deeper than maxDepth; with maxDepth = 0 the root stays a leaf that holds
\* every inserted element, even with maxFill = 0.
C16_MaxDepthGate ==
    /\ \A path \in DOMAIN rootNode :
           /\ Len(path) <= insertion.maxDepth
           /\ Len(path) = insertion.maxDepth => rootNode[path].m_isLeaf
    /\ (rootNode # NullNode /\ insertion.maxDepth = 0)
           => /\ rootNode[Root].m_isLeaf
              /\ fill(Root) = insertedCount

\* C16 happens: the same point was inserted ten times with maxDepth = 0
\* and maxFill = 0, and the root is a leaf that holds the ten copies.
C16_Witness ==
    /\ insertion = TenCopies
    /\ insertedCount = 10
    /\ DOMAIN rootNode = {Root}
    /\ fill(Root) = 10

\* C17: the centre of a root of halfWidth 0.5 inserted 20 times with
\* maxDepth = 100 and maxFill = 3 gives a root that is not a leaf, a
\* deepest leaf at depth 6 and a fullest leaf of 20 elements; after n
\* copies every leaf holds the n copies, at the first depth d at which
\* (n - 1) / (1 + d) is not greater than maxFill.
C17_CoincidentPoints ==
    insertion = TwentyCopies
        => /\ \A l \in leafPaths :
                  insertedCount >= 1 =>
                      /\ fill(l) = insertedCount
                      /\ Le(Fl(insertedCount - 1),
                            Mul(insertion.maxFill, Fl(1 + Len(l))))
                      /\ Len(l) > 0 => Gt(Fl(insertedCount - 1),
                                          Mul(insertion.maxFill, Fl(Len(l))))
           /\ insertedCount = 20
                  => /\ ~rootNode[Root].m_isLeaf
                     /\ \A l \in leafPaths : Len(l) <= 6 /\ fill(l) <= 20
                     /\ \E l \in leafPaths : Len(l) = 6 /\ fill(l) = 20

\* C17 happens: the twentieth copy is in, in a leaf at depth 6.
C17_Witness ==
    /\ insertion = TwentyCopies
    /\ insertedCount = 20
    /\ \E l \in leafPaths : Len(l) = 6 /\ fill(l) = 20

\* The corner of the root of EightCorners that lies in the octant of the
\* child of that index.
cornerOf(index) ==
    LET coordinate(bit) == IF (index \div bit) % 2 = 1 THEN 1 ELSE -1
    IN  Pt(coordinate(1), coordinate(2), coordinate(4))

\* C18: the 8 points (+-1, +-1, +-1) inserted in any order in a root of
\* halfWidth 2 with maxFill = 1 and maxDepth = 10 leave the root internal
\* with exactly 8 children, every child a leaf that holds exactly the point
\* of its octant.
C18_EightCorners ==
    (insertion = EightCorners /\ insertedCount = 8)
        => /\ ~rootNode[Root].m_isLeaf
           /\ DOMAIN rootNode = {Root} \cup {<<index>> : index \in 0..7}
           /\ \A index \in 0..7 :
                  /\ rootNode[<<index>>].m_isLeaf
                  /\ rootNode[<<index>>].m_elements = <<cornerOf(index)>>

\* C18 happens: the eight corners are in, and the tree has nine nodes.
C18_Witness ==
    /\ insertion = EightCorners
    /\ insertedCount = 8
    /\ Cardinality(DOMAIN rootNode) = 9
    /\ fill(<<0>>) = 1

C12_ReadOnlyDeterministic ==
    /\ [][ctor # "none" => UNCHANGED engine]_vars
    /\ [](Done => outcome = alone(m_partitionedSpace, m_vertices, m_faces,
                                  queryPoint, maxDist))

\* C12 happens: after the provider was emptied, a call on the snapshot of
\* the collinear quad raises as it did before.
C12_Witness ==
    /\ Done
    /\ holds(StubSoloCollinearQuadMesh)
    /\ provider = StubEmptyMesh
    /\ outcome = Raised(Collinear)

\* C13: with the calls of two threads interleaved on one engine, each call
\* gives what it gives when it runs alone.
C13_ConcurrentAsAlone ==
    /\ Done => outcome = alone(m_partitionedSpace, m_vertices, m_faces,
                               queryPoint, maxDist)
    /\ other.pc = "done"
           => other.outcome = alone(m_partitionedSpace, m_vertices, m_faces,
                                    other.queryPoint, other.maxDist)

\* C13 happens: both calls are in the loop of the indexed search, each has
\* evaluated faces, their running results differ, and the other thread's
\* call ends on its own point.
C13_Witness ==
    /\ pc = "search"
    /\ evaluated # << >>
    /\ isIndexed
    /\ other.pc = "done"
    /\ other.evaluated # << >>
    /\ other.outcome.throw = NoThrow
    /\ ~isnan(other.outcome.value.x)
    /\ ~isnan(result.first.x)
    /\ other.outcome.value # result.first

\* C15: on the single triangle (0,0,0), (1,0,0), (0,1,0) with an infinite
\* radius, each position of the test gives the expected point, and the
\* solver classifies it into the region the test names.
C15_RegionVectors ==
    (Done /\ holds(StubSoloTriangleMesh) /\ maxDist = infinity)
        => \A vector \in TestVectors :
               queryPoint = vector.position
                   => /\ outcome = Returned(vector.expectedResult)
                      /\ selectRegion(triangleCoefficients(
                             m_vertices[1], m_vertices[2], m_vertices[3],
                             queryPoint)).region = vector.region

\* C15 happens: the position (-1/2, -1/2, 0) of Region 4 gave the vertex
\* (0, 0, 0).
C15_Witness ==
    /\ Done
    /\ holds(StubSoloTriangleMesh)
    /\ maxDist = infinity
    /\ queryPoint = PtW(-1, -1, 0, 2)
    /\ outcome = Returned(Pt(0, 0, 0))

\* C21: after every insert an internal node holds no element and a leaf has
\* no children, so that only leaves hold elements; and a node that is
\* internal stays in the tree and stays internal.
C21_LeavesHoldElements ==
    /\ [](\A path \in DOMAIN rootNode :
              IF rootNode[path].m_isLeaf THEN children(rootNode, path) = << >>
              ELSE rootNode[path].m_elements = << >>)
    /\ [][\A path \in DOMAIN rootNode :
              ~rootNode[path].m_isLeaf
                  => path \in DOMAIN rootNode' /\ ~rootNode'[path].m_isLeaf]_vars

\* C21 happens: the root and one of its children were subdivided, and the
\* elements are in leaves at depth 1 and at depth 2.
C21_Witness ==
    /\ rootNode # NullNode
    /\ ~rootNode[Root].m_isLeaf
    /\ \E l \in leafPaths : Len(l) = 1 /\ fill(l) > 0
    /\ \E l \in leafPaths :
           Len(l) = 2 /\ fill(l) > 1 /\ ~rootNode[SubSeq(l, 1, 1)].m_isLeaf

\* The node at path n is the node at path l or one of its ancestors.
isAbove(n, l) == Len(n) <= Len(l) /\ SubSeq(l, 1, Len(n)) = n

\* C22: after any sequence of inserts, the cube of an internal node
\* intersects every element held by a leaf of its subtree, under the
\* predicate the inserts were given (for the faces of the engine: the box
\* of the face overlaps the cube on the three axes).
C22_SubtreeIntersects ==
    \A n \in DOMAIN rootNode :
        ~rootNode[n].m_isLeaf
            => \A l \in leafPaths :
                   isAbove(n, l)
                       => \A i \in 1..fill(l) :
                              Intersect(insertion.intersect, rootNode[n].m_bounds,
                                        rootNode[l].m_elements[i])

\* C22 happens: a box across a split plane is held by two leaves at depth
\* 2 under different children of the root.
C22_Witness ==
    /\ insertion.intersect = "intersect"
    /\ \E l \in leafPaths, m \in leafPaths :
           /\ Len(l) = 2
           /\ Len(m) = 2
           /\ l[1] # m[1]
           /\ \E i \in 1..fill(l), j \in 1..fill(m) :
                  rootNode[l].m_elements[i] = rootNode[m].m_elements[j]

\* The nodes pushed since the call began: those popped and those waiting.
pushed == [i \in 1..(Len(visited) + Len(heap)) |->
              IF i <= Len(visited) THEN visited[i].first
              ELSE heap[i - Len(visited)].first]

\* C23: an indexed query ends.  No node is pushed twice during a query, a
\* turn of the loop pops exactly one entry, the top of the heap, and pushes
\* nothing but children of the node popped, and the turns are never more
\* than the nodes of the tree.
C23_Terminates ==
    /\ [](isIndexed
              => /\ \A i \in DOMAIN pushed, j \in DOMAIN pushed :
                        pushed[i] = pushed[j] => i = j
                 /\ Range(pushed) \subseteq DOMAIN m_partitionedSpace
                 /\ Len(visited) <= Cardinality(DOMAIN m_partitionedSpace))
    /\ [][(pc = "search" /\ <<heap, visited>>' # <<heap, visited>>)
              => /\ visited' = Append(visited, heap[top(heap)])
                 /\ \A i \in DOMAIN heap' :
                        \/ \E j \in DOMAIN heap : j # top(heap) /\ heap[j] = heap'[i]
                        \/ \E index \in 0..7 :
                               heap'[i].first = Append(heap[top(heap)].first, index)
                 /\ Len(heap') >= Len(heap) - 1]_vars
    /\ (pc = "search" ~> (pc = "done"))

\* C23 happens: a query on an indexed mesh is done after it popped internal
\* nodes and leaves, and left nodes on the heap.
C23_Witness ==
    /\ Done
    /\ isIndexed
    /\ heap # << >>
    /\ \E i \in DOMAIN visited : m_partitionedSpace[visited[i].first].m_isLeaf
    /\ \E i \in DOMAIN visited :
           /\ visited[i].first # Root
           /\ ~m_partitionedSpace[visited[i].first].m_isLeaf

\* The coefficients of the triangles the solver was given by the calls of
\* computeClosestPointOnFace on valid faces.
solved ==
    {triangleCoefficients(At(m_vertices, ids[1]), At(m_vertices, ids[2]),
                          At(m_vertices, ids[3]), queryPoint) :
        ids \in UNION {trianglesOf(m_faces[i]) :
                          i \in {j \in Range(evaluated) :
                                    validFace(m_vertices, m_faces[j])}}}

clamp(x, lo, hi) == IF Lt(x, lo) THEN lo ELSE IF Gt(x, hi) THEN hi ELSE x

\* The raw (s, t) is in Region 2: s + t > det and s < 0.
inRegion2(k) == Gt(Add(k.s1, k.t1), k.det) /\ Lt(k.s1, Zero)

\* clamp((tmp1 - tmp0) / (a - 2b + c), 0, 1)
onEdge12(k, tmp0, tmp1) ==
    clamp(Div(Sub(tmp1, tmp0), Add(Sub(k.a, Mul(Two, k.b)), k.c)), Zero, One)

\* (s, t) of Region 2 as the text gives it, t being atCorner when tmp1 <= 0.
statedRegion2(k, tmp0, tmp1, atCorner) ==
    IF Gt(tmp1, tmp0)
    THEN ST(2, onEdge12(k, tmp0, tmp1), Sub(One, onEdge12(k, tmp0, tmp1)))
    ELSE ST(2, Zero,
            IF Le(tmp1, Zero) THEN atCorner
            ELSE IF Ge(k.e, Zero) THEN Zero
            ELSE clamp(Div(Neg(k.e), k.c), Zero, One))

\* C24 as stated: in Region 2, with tmp0 = b + d and tmp1 = c + e, the
\* solver takes s = clamp((tmp1 - tmp0)/(a - 2b + c), 0, 1) and t = 1 - s
\* if tmp1 > tmp0, and otherwise s = 0 with t = 0 if tmp1 <= 0, else t = 0
\* if e >= 0, else t = clamp(-e/c, 0, 1).
C24_Region2AsStated ==
    Done => \A k \in solved :
                inRegion2(k)
                    => selectRegion(k)
                           = statedRegion2(k, Add(k.b, k.d), Add(k.c, k.e), Zero)

\* C24 amended: the same, with t = 1 (the vertex v2) when tmp1 <= tmp0 and
\* tmp1 <= 0.
C24_Region2 ==
    Done => \A k \in solved :
                inRegion2(k)
                    => selectRegion(k)
                           = statedRegion2(k, Add(k.b, k.d), Add(k.c, k.e), One)

\* C24 happens: on the sliver whose obtuse angle is at v2, a query point
\* of Region 2 with tmp1 <= tmp0 and tmp1 <= 0, for which operator()
\* returned the vertex v2.
C24_Witness ==
    /\ Done
    /\ holds(TurnedSliverMesh)
    /\ \E k \in solved :
           /\ inRegion2(k)
           /\ Le(Add(k.c, k.e), Add(k.b, k.d))
           /\ Le(Add(k.c, k.e), Zero)
           /\ selectRegion(k) = ST(2, Zero, One)
    /\ outcome = Returned(At(m_vertices, m_faces[1][3]))

\* The raw (s, t) is in Region 6: s >= 0, t < 0 and s + t > det.
inRegion6(k) == Gt(Add(k.s1, k.t1), k.det) /\ Ge(k.s1, Zero) /\ Lt(k.t1, Zero)

\* (s, t) is what the text gives for Region 6, tmp0 being b + e and tmp1
\* being a + d.
statedRegion6(k, tmp0, tmp1, st) ==
    /\ st.region = 6
    /\ IF Gt(tmp1, tmp0)
       THEN /\ st.t2 = onEdge12(k, tmp0, tmp1)
            /\ st.s2 = Sub(One, st.t2)
       ELSE /\ st.t2 = Zero
            /\ Le(Zero, st.s2)
            /\ Le(st.s2, One)

\* C25: Region 6 mirrors Region 2.  With tmp0 = b + e and tmp1 = a + d, if
\* tmp1 > tmp0 the solver takes t = clamp((tmp1 - tmp0)/(a - 2b + c), 0, 1)
\* and s = 1 - t, a point of the edge v1-v2; otherwise it takes t = 0 and
\* a point of the edge v0-v1.
C25_Region6Mirror ==
    Done => \A k \in solved :
                inRegion6(k)
                    => statedRegion6(k, Add(k.b, k.e), Add(k.a, k.d), selectRegion(k))

\* The child visitor is called on the present children of the node at
\* path n, by increasing child index.
byChildIndex(n) ==
    LET seen == children(rootNode, n)
    IN  /\ Range(seen) = {Append(n, index) : index \in 0..7} \cap DOMAIN rootNode
        /\ \A i \in DOMAIN seen, j \in DOMAIN seen :
               i < j => seen[i][Len(n) + 1] < seen[j][Len(n) + 1]

\* The tree is the one partitionSpace builds: the faces were inserted into
\* it by increasing index.
isPartition ==
    \E mesh \in PartitionedMeshes :
        rootNode # NullNode /\ insertion = facesInserted(rootNode, mesh.vertices, mesh.faces)

\* C26 as stated: the child visitor sees the present children by
\* increasing index, and the element visitor sees the elements of a leaf
\* in the order of their insertion into the tree (for the faces of the
\* engine, by increasing index of the face).
C26_InsertionOrder ==
    \A n \in DOMAIN rootNode :
        IF rootNode[n].m_isLeaf
        THEN isPartition
                 => \A i \in 1..fill(n), j \in 1..fill(n) :
                        i < j => elements(rootNode, n)[i].first
                                     < elements(rootNode, n)[j].first
        ELSE byChildIndex(n)

\* The elements of the list that intersect the cube, in the order of the
\* list.
within(list, cube) ==
    SelectSeq(list, LAMBDA element : Intersect(insertion.intersect, cube, element))

\* The list in the reverse order.
reversed(list) == [i \in 1..Len(list) |-> list[Len(list) + 1 - i]]

\* The list of a leaf after the insert of an element: the leaf itself was
\* a leaf and took the element at its back or did not take it; or its
\* parent was a leaf, has been subdivided, and pushed its elements to the
\* leaf from the back of its list to the front, before the element.
listedAfter(before, after, l, element) ==
    IF l \in DOMAIN before
    THEN after[l].m_elements
             \in {before[l].m_elements, Append(before[l].m_elements, element)}
    ELSE LET parent == SubSeq(l, 1, Len(l) - 1)
         IN  (parent \in DOMAIN before /\ before[parent].m_isLeaf)
                 => after[l].m_elements
                        = within(reversed(before[parent].m_elements)
                                     \o <<element>>, after[l].m_bounds)

\* C26 amended: the child visitor sees the present children by increasing
\* index, and the element visitor sees the elements of a leaf in the order
\* of the leaf's list.  An insert appends to that list; a subdivision
\* gives the new leaves the elements of the subdivided leaf from the back
\* of its list to the front, so that they come in the reverse order.
C26_ListOrder ==
    /\ [](\A n \in DOMAIN rootNode :
              IF rootNode[n].m_isLeaf
              THEN elements(rootNode, n) = rootNode[n].m_elements
              ELSE byChildIndex(n))
    /\ [][\A element \in DOMAIN inserted :
              (rootNode # NullNode /\ inserted'[element] = inserted[element] + 1)
                  => \A l \in DOMAIN rootNode' :
                         rootNode'[l].m_isLeaf
                             => listedAfter(rootNode, rootNode', l, element)]_vars

\* C26 happens: a leaf of the octree of an engine is visited on a face,
\* then on a face inserted before it, then on a face inserted after both.
C26_Witness ==
    /\ isPartition
    /\ \E l \in leafPaths :
           \E i \in 1..fill(l), j \in 1..fill(l), k \in 1..fill(l) :
               /\ i < j
               /\ j < k
               /\ elements(rootNode, l)[j].first < elements(rootNode, l)[i].first
               /\ elements(rootNode, l)[i].first < elements(rootNode, l)[k].first

\* The two triangles of the quad, (v0, v1, v2) and (v2, v3, v0), as vertex
\* ids.
halves(quad) == <<<<quad[1], quad[2], quad[3]>>, <<quad[3], quad[4], quad[1]>>>>

\* The quads operator() evaluated that have a half on one line.
halfDegenerate ==
    {i \in solvedFaces :
        /\ Len(m_faces[i]) = 4
        /\ \E h \in 1..2 : onOneLine(corners(m_vertices, halves(m_faces[i])[h]))}

\* C27: on a quad one of whose two triangles is collinear,
\* computeClosestPointOnFace raises the degenerate-triangle error for every
\* query point, and the query that evaluated the quad ends with that error
\* and never with the point of the valid half.
C27_DegenerateHalfRaises ==
    Done => \A i \in halfDegenerate :
                /\ computeClosestPointOnFace(m_faces[i], m_vertices, queryPoint)
                       = Thrown(Collinear)
                /\ outcome = Raised(Collinear)

\* C27 happens: the quad has one collinear half, the query point lies on
\* the other half, which the solver solves at distance zero, and the query
\* raised the degenerate-triangle error.
C27_Witness ==
    /\ Done
    /\ outcome = Raised(Collinear)
    /\ \E i \in halfDegenerate, h \in 1..2 :
           LET good  == corners(m_vertices, halves(m_faces[i])[h])
               flat  == corners(m_vertices, halves(m_faces[i])[3 - h])
           IN  /\ onOneLine(flat)
               /\ ~onOneLine(good)
               /\ computeClosestPointOnTriangle(good[1], good[2], good[3],
                                                 queryPoint).throw = NoThrow
               /\ Eq(computeClosestPointOnTriangle(good[1], good[2], good[3],
                                                    queryPoint).second, Zero)

\* Bit b (0, 1 or 2) of the child index i is set.
bitSet(i, b) == (i \div (2 ^ b)) % 2 = 1

\* The cube the text gives to child i of a node of the given cube.
statedChild(cube, i) ==
    LET quarter == Div(cube.halfWidth, Two)
        moved(c, b) == IF bitSet(i, b) THEN Add(c, quarter) ELSE Sub(c, quarter)
    IN  AABCube(Float3(moved(cube.center.x, 0), moved(cube.center.y, 1),
                       moved(cube.center.z, 2)), quarter)

sameCube(p, q) == V3Eq(p.center, q.center) /\ Eq(p.halfWidth, q.halfWidth)

\* On one axis the inner interval is the lower or the upper half of the
\* outer one: it lies inside it, and the two halves cover it.
isHalfOf(c, h, center, halfWidth, upper) ==
    IF upper
    THEN Eq(Sub(c, h), center) /\ Eq(Add(c, h), Add(center, halfWidth))
    ELSE Eq(Sub(c, h), Sub(center, halfWidth)) /\ Eq(Add(c, h), center)

\* C28: the bounds of child i of a node, computed or stored, have half the
\* parent's halfWidth and a center moved by that amount on each axis, up
\* on x, y, z iff bit 0, 1, 2 of i is set; each child cube is an octant of
\* the parent cube, so the eight lie inside it and cover it, and an element
\* that intersects the cube of a node intersects a child cube.
C28_ChildCubes ==
    \A n \in DOMAIN rootNode :
        LET cube == rootNode[n].m_bounds
        IN  /\ \A i \in 0..7 :
                   LET child == getChildBounds(rootNode, n, i)
                   IN  /\ sameCube(child, statedChild(cube, i))
                       /\ hasChild(rootNode, n, i)
                              => sameCube(rootNode[Append(n, i)].m_bounds,
                                          statedChild(cube, i))
                       /\ isHalfOf(child.center.x, child.halfWidth,
                                   cube.center.x, cube.halfWidth, bitSet(i, 0))
                       /\ isHalfOf(child.center.y, child.halfWidth,
                                   cube.center.y, cube.halfWidth, bitSet(i, 1))
                       /\ isHalfOf(child.center.z, child.halfWidth,
                                   cube.center.z, cube.halfWidth, bitSet(i, 2))
            /\ \A element \in insertion.points :
                   Intersect(insertion.intersect, cube, element)
                       => \E i \in 0..7 :
                              Intersect(insertion.intersect,
                                        getChildBounds(rootNode, n, i), element)

\* C28 happens: an internal node below the root has two children and lacks
\* another, and an inserted box intersects the cubes of both children.
C28_Witness ==
    /\ rootNode # NullNode
    /\ insertion.intersect = "intersect"
    /\ \E n \in DOMAIN rootNode \ {Root} :
           /\ ~rootNode[n].m_isLeaf
           /\ \E i \in 0..7 : ~hasChild(rootNode, n, i)
           /\ \E i \in 0..7, j \in 0..7, element \in insertion.points :
                  /\ i # j
                  /\ hasChild(rootNode, n, i)
                  /\ hasChild(rootNode, n, j)
                  /\ inserted[element] > 0
                  /\ intersect(getChildBounds(rootNode, n, i), element)
                  /\ intersect(getChildBounds(rootNode, n, j), element)

\* The number of times the list holds the element.
copies(list, element) == Cardinality({i \in DOMAIN list : list[i] = element})

\* The elements given to insert that intersect the cube of the root.
placeable ==
    {element \in insertion.points :
        Intersect(insertion.intersect, rootNode[Root].m_bounds, element)}

\* C29: after any sequence of inserts, a leaf other than the root holds an
\* element that intersects the cube of the root once for each of its
\* inserts if the element intersects the cube of the leaf, and not at all
\* otherwise, and a root that is a leaf holds it once for each insert; so
\* every inserted element is in a leaf, and in every partitioned mesh
\* every face is referenced by a leaf.
C29_CompletePlacement ==
    rootNode # NullNode
        => /\ \A l \in leafPaths, element \in placeable :
                  copies(rootNode[l].m_elements, element)
                      = IF Intersect(insertion.intersect, rootNode[l].m_bounds,
                                     element)
                        THEN inserted[element] ELSE 0
           /\ \A element \in placeable :
                  inserted[element] > 0
                      => \E l \in leafPaths :
                             element \in Range(rootNode[l].m_elements)
           /\ \A mesh \in PartitionedMeshes :
                  insertion = facesInserted(rootNode, mesh.vertices, mesh.faces)
                      => \A i \in 1..Len(mesh.faces) :
                             leavesStoring(rootNode, i) # {}

\* C29 happens: the root has been subdivided, an inserted box that
\* straddles two children is in a leaf under each, and a leaf whose cube
\* the box does not intersect holds another box.
C29_Witness ==
    /\ rootNode # NullNode
    /\ insertion.intersect = "intersect"
    /\ ~rootNode[Root].m_isLeaf
    /\ \E element \in placeable, l \in leafPaths, m \in leafPaths :
           /\ l[1] # m[1]
           /\ copies(rootNode[l].m_elements, element) = 1
           /\ copies(rootNode[m].m_elements, element) = 1
           /\ \E n \in leafPaths :
                  /\ ~intersect(rootNode[n].m_bounds, element)
                  /\ fill(n) > 0

\* A turn of the loop of the indexed query pops an entry in this step.
pops ==
    pc = "search" /\ heap # << >> /\ visited' = Append(visited, heap[top(heap)])

\* C30: during one indexed query the keys of the popped heap entries never
\* decrease, the running best squared distance never increases and, once
\* finite, is smaller than the square of the radius, and an entry is popped
\* only if its key is smaller than the running best at the time of the pop.
C30_BestFirst ==
    /\ [](\A i \in DOMAIN visited, j \in DOMAIN visited :
              i < j => Le(visited[i].second, visited[j].second))
    /\ []((isIndexed /\ pc \in {"search", "done"} /\ result.second # infinity)
              => Lt(result.second, sqrMaxDist))
    /\ [][pops => /\ Le(result'.second, result.second)
                  /\ Lt(visited'[Len(visited')].second, result.second)]_vars

\* C30 happens: the indexed query popped entries of a greater and greater
\* key, found a face within the radius, and returned with entries left in
\* the heap, none of a key smaller than the running best.
C30_Witness ==
    /\ Done
    /\ isIndexed
    /\ Len(visited) >= 3
    /\ Lt(visited[1].second, visited[Len(visited)].second)
    /\ result.second # infinity
    /\ maxDist # infinity
    /\ heap # << >>
    /\ outcome = Returned(result.first)

====
